---- MODULE Spec2Model ----
(***************************************************************************)
(* A model of the Zekken interpreter (OzRAGEHarm/Zekken): the scope chain  *)
(* of src/environment, the error accumulator of src/errors, the scanner of *)
(* src/lexer and the tree-walking evaluator of src/eval.                   *)
(*                                                                         *)
(* The module holds several specifications over one set of variables; a    *)
(* specification leaves the variables of the other components at their     *)
(* initial values.                                                         *)
(*   SpecEnv  - Environment::declare / assign / lookup / new_with_parent   *)
(*   SpecAcc  - push_error / print_and_clear_errors                        *)
(*   SpecLex  - tokenize, one loop iteration per step                      *)
(*   SpecExpr - evaluate_expression, one call on a drawn expression        *)
(*   SpecProg - the execution loop of evaluate_program, one item per step  *)
(*                                                                         *)
(* Values, AST nodes, tokens and results are records built by operators    *)
(* named after the Rust types and variants they stand for.                 *)
(***************************************************************************)
EXTENDS Integers, Sequences, FiniteSets, TLC

VARIABLES
  env,        \* the Environment the caller holds: a chain of scopes, outermost first
  callers,    \* the environments of the callers whose clone became a child's parent
  envOp,      \* the last Environment operation, its arguments, result and pre-state
  envSteps,   \* the number of Environment operations made so far
  ERROR_SET,  \* errors: the set of (kind, line, column, message) keys accepted
  ERROR_LIST, \* errors: the ordered list of accumulated errors
  accOp,      \* the last accumulator call and its argument
  pushedFirst, \* history: the first error pushed for each key since the last drain
  src,        \* lexer: the source text as a sequence of characters
  lexIndex,   \* lexer: tokenize's `index`
  lexLine,    \* lexer: tokenize's `line`
  lexColumn,  \* lexer: tokenize's `column`
  tokens,     \* lexer: tokenize's `tokens`
  lexPhase,   \* lexer: "scan" inside the loop, "done" after the EOF push, "panic"
  lexSkipped, \* history: the number of whitespace characters the loop skipped
  current,    \* parser: the Parser's `current`
  program,    \* parser: produce_ast's `program`
  parseOp,    \* parser: the last step of produce_ast and how it ended
  overflowChecks, \* build: TRUE when rustc compiled with overflow checks (debug profile)
  out,        \* eval: the text written to stdout, one entry per write
  evalIn,     \* eval: the expression or program handed to the evaluator
  evalOp,     \* eval: the last evaluation, its input and its result
  evalSteps,  \* eval: the number of top-level evaluations made so far
  last_value, \* eval: evaluate_program's `last_value`
  had_error,  \* eval: evaluate_program's `had_error`
  current_file, \* process: the variable ZEKKEN_CURRENT_FILE, None while it is unset
  frame,      \* eval: evaluate_program's phase, loop index, temp_env and import errors
  thread,     \* threads: where each thread is in its accumulator call, and its argument
  mutex       \* threads: the thread holding each Mutex of the accumulator, 0 for none

envVars == <<env, callers, envOp, envSteps>>

accVars == <<ERROR_SET, ERROR_LIST, accOp, pushedFirst>>

lexVars == <<src, lexIndex, lexLine, lexColumn, tokens, lexPhase, lexSkipped>>

parseVars == <<current, program, parseOp>>

evalVars == <<overflowChecks, out, evalIn, evalOp, evalSteps, last_value, had_error>>

runVars == <<current_file, frame>>

lockVars == <<thread, mutex>>

vars == <<env, callers, envOp, envSteps, ERROR_SET, ERROR_LIST, accOp, pushedFirst,
          src, lexIndex, lexLine, lexColumn, tokens, lexPhase, lexSkipped,
          current, program, parseOp,
          overflowChecks, out, evalIn, evalOp, evalSteps, last_value, had_error,
          current_file, frame, thread, mutex>>

(***************************************************************************)
(* Values (environment/mod.rs, enum Value).  Every variant is a record     *)
(* with its own payload field.                                             *)
(***************************************************************************)
IntV(n) == [t |-> "Int", i |-> n]

BoolV(b) == [t |-> "Boolean", b |-> b]

StringV(s) == [t |-> "String", s |-> s]

ArrayV(a) == [t |-> "Array", a |-> a]

ObjectV(m) == [t |-> "Object", o |-> m]

NativeV(n) == [t |-> "NativeFunction", native |-> n]

VoidV == [t |-> "Void"]

(***************************************************************************)
(* HashMap<String, Value>: a function from the keys present to values.     *)
(***************************************************************************)
EmptyMap == << >>

MapHas(m, k) == k \in DOMAIN m

MapInsert(m, k, v) == [n \in (DOMAIN m) \cup {k} |-> IF n = k THEN v ELSE m[n]]

(***************************************************************************)
(* Option<T> and Result<(), String>.                                       *)
(***************************************************************************)
None == [some |-> FALSE]

Some(v) == [some |-> TRUE, v |-> v]

(***************************************************************************)
(* Environment (environment/mod.rs).  An Environment owns its parent, so   *)
(* the whole chain is one value: a sequence of scopes, env[1] the          *)
(* outermost and env[Len(env)] the scope `self` names.                     *)
(***************************************************************************)
EmptyScope == [variables |-> EmptyMap, constants |-> EmptyMap]

\* Environment::new: println is inserted into variables, input is declared
\* non-constant, parse_json is declared constant.
EnvironmentNew ==
  << [variables |-> MapInsert(MapInsert(EmptyMap, "println", NativeV("println")),
                              "input", NativeV("input")),
      constants |-> MapInsert(EmptyMap, "parse_json", NativeV("parse_json"))] >>

NewWithParent(parent) == Append(parent, EmptyScope)

Declare(e, name, value, constant) ==
  IF constant
    THEN [e EXCEPT ![Len(e)].constants = MapInsert(@, name, value)]
    ELSE [e EXCEPT ![Len(e)].variables = MapInsert(@, name, value)]

\* assign on the scope at depth d of the chain e, recursing into the parent.
RECURSIVE AssignAt(_, _, _, _)
AssignAt(e, d, name, value) ==
  IF MapHas(e[d].variables, name)
    THEN IF MapHas(e[d].constants, name)
           THEN [ok |-> FALSE, err |-> "Cannot reassign constant '" \o name \o "'",
                 env |-> e]
           ELSE [ok |-> TRUE, err |-> "",
                 env |-> [e EXCEPT ![d].variables = MapInsert(@, name, value)]]
    ELSE IF d > 1
           THEN AssignAt(e, d - 1, name, value)
           ELSE [ok |-> FALSE, err |-> "Variable '" \o name \o "' not found",
                 env |-> e]

Assign(e, name, value) == AssignAt(e, Len(e), name, value)

RECURSIVE LookupAt(_, _, _)
LookupAt(e, d, name) ==
  IF MapHas(e[d].variables, name) THEN Some(e[d].variables[name])
  ELSE IF MapHas(e[d].constants, name) THEN Some(e[d].constants[name])
  ELSE IF d > 1 THEN LookupAt(e, d - 1, name)
  ELSE None

Lookup(e, name) == LookupAt(e, Len(e), name)

(***************************************************************************)
(* The error accumulator (errors/mod.rs).  A ZekkenError carries its kind, *)
(* message, context (line, column) and the optional extra text; the key of *)
(* the deduplication set leaves the extra text out.                        *)
(***************************************************************************)
ZekkenError(kind, message, line, column, extra) ==
  [kind |-> kind, message |-> message, line |-> line, column |-> column, extra |-> extra]

\* format!("{:?}", error.kind): the derived Debug of a unit variant is its name.
KindDebug(kind) ==
  CASE kind = "Syntax" -> "Syntax"
    [] kind = "Runtime" -> "Runtime"
    [] kind = "Type" -> "Type"
    [] kind = "Reference" -> "Reference"
    [] kind = "Internal" -> "Internal"

ErrorKey(error) == <<KindDebug(error.kind), error.line, error.column, error.message>>

\* The mutant of PushErrorInto: the list is appended to whatever the set says.
PushErrorAlways(set, list, error) ==
  [set |-> set \cup {ErrorKey(error)}, list |-> Append(list, error)]

\* push_error: HashSet::insert answers whether the key was new.
PushErrorInto(set, list, error) ==
  IF ErrorKey(error) \notin set
    THEN [set |-> set \cup {ErrorKey(error)}, list |-> Append(list, error)]
    ELSE [set |-> set, list |-> list]

(***************************************************************************)
(* The lexer (lexer/mod.rs).  The source is a Vec<char>; a character is    *)
(* modelled by a one-character string, and "U+00E9" stands for a letter    *)
(* whose UTF-8 encoding takes two bytes.  Indices are zero-based as in the *)
(* code: CharAt(s, i) is s[i].                                             *)
(***************************************************************************)
LexChars == {"a", "U+00E9", "1", ".", " ", "\n", "/", "*", "+", "=", "-", "\"", "\\", ";", "#"}

CharAt(s, i) == s[i + 1]

\* char::len_utf8
Utf8Len(c) == IF c = "U+00E9" THEN 2 ELSE 1

\* String::len: the number of bytes
RECURSIVE ByteLen(_)
ByteLen(str) == IF str = << >> THEN 0 ELSE Utf8Len(Head(str)) + ByteLen(Tail(str))

IsWhitespace(c) == c \in {" ", "\n", "\t", "\r"}

IsAlphabetic(c) == c \in {"a", "U+00E9"}

IsDigit(c) == c \in {"1"}

IsAlphanumeric(c) == IsAlphabetic(c) \/ IsDigit(c)

\* KEYWORDS
Keywords ==
  [w \in { <<"l","e","t">>, <<"c","o","n","s","t">>, <<"f","u","n","c">>, <<"i","f">>,
           <<"e","l","s","e">>, <<"f","o","r">>, <<"w","h","i","l","e">>, <<"u","s","e">>,
           <<"i","n","c","l","u","d","e">>, <<"e","x","p","o","r","t">>, <<"i","n">>,
           <<"f","r","o","m">>, <<"r","e","t","u","r","n">>, <<"t","r","y">>,
           <<"c","a","t","c","h">>, <<"i","n","t">>, <<"f","l","o","a","t">>,
           <<"s","t","r","i","n","g">>, <<"b","o","o","l">>, <<"o","b","j">>,
           <<"a","r","r">>, <<"f","n">>, <<"t","r","u","e">>, <<"f","a","l","s","e">> }
     |-> "Keyword"]

\* TOKEN_CHAR: the entries of two characters and the entries of one character
TwoCharTokens ==
  { <<"-", ">">>, <<"=", ">">>, <<"+", "=">>, <<"-", "=">>, <<"*", "=">>, <<"/", "=">>,
    <<"%", "=">>, <<"|", "|">>, <<"&", "&">>, <<"=", "=">>, <<"!", "=">>, <<">", "=">>,
    <<"<", "=">> }

OneCharTokens ==
  { "@", "(", ")", "{", "}", "[", "]", ".", ";", ":", ",", "|", "&", "'", "\"",
    "+", "-", "*", "%", "/", "=", "!", ">", "<" }

\* parse_operators: the characters it answers Some for
OperatorChars == {"=", "!", "&", "|", "+", "-", "*", "/", "%", "<", ">"}

\* Token::new sets length to value.len(); with_length overrides it.
TokenNew(value, kind, line, column) ==
  [value |-> value, kind |-> kind, line |-> line, column |-> column, length |-> ByteLen(value)]

WithLength(token, length) == [token EXCEPT !.length = length]

NoToken == [tag |-> "None"]

SomeToken(token, consumed) == [tag |-> "Some", token |-> token, consumed |-> consumed]

\* An index past the end of the Vec: the process panics.
PanicToken == [tag |-> "Panic"]

\* the `//` branch: idx runs to the next newline or the end
RECURSIVE LineCommentEnd(_, _)
LineCommentEnd(s, idx) ==
  IF idx < Len(s) /\ CharAt(s, idx) # "\n" THEN LineCommentEnd(s, idx + 1) ELSE idx

\* The mutant of BlockCommentEnd: the loop runs while idx < len and so reads
\* src[idx + 1] past the end.
RECURSIVE BlockCommentEndOffByOne(_, _)
BlockCommentEndOffByOne(s, idx) ==
  IF idx < Len(s)
    THEN IF idx + 1 >= Len(s) THEN [idx |-> idx, closed |-> FALSE, panic |-> TRUE]
         ELSE IF CharAt(s, idx) = "*" /\ CharAt(s, idx + 1) = "/"
           THEN [idx |-> idx + 2, closed |-> TRUE, panic |-> FALSE]
           ELSE BlockCommentEndOffByOne(s, idx + 1)
    ELSE [idx |-> idx, closed |-> FALSE, panic |-> FALSE]

\* the `/*` branch: while idx < len - 1, stop after `*/`; src[idx + 1] is read
RECURSIVE BlockCommentEnd(_, _)
BlockCommentEnd(s, idx) ==
  IF idx < Len(s) - 1
    THEN IF idx + 1 >= Len(s) THEN [idx |-> idx, closed |-> FALSE, panic |-> TRUE]
         ELSE IF CharAt(s, idx) = "*" /\ CharAt(s, idx + 1) = "/"
           THEN [idx |-> idx + 2, closed |-> TRUE, panic |-> FALSE]
           ELSE BlockCommentEnd(s, idx + 1)
    ELSE [idx |-> idx, closed |-> FALSE, panic |-> FALSE]

RECURSIVE IdentifierEnd(_, _)
IdentifierEnd(s, idx) ==
  IF idx < Len(s) /\ (IsAlphanumeric(CharAt(s, idx)) \/ CharAt(s, idx) = "_")
    THEN IdentifierEnd(s, idx + 1) ELSE idx

ParseIdentifier(s, start, line, column) ==
  LET ident == SubSeq(s, start + 1, IdentifierEnd(s, start))
      kind == IF ident \in DOMAIN Keywords THEN Keywords[ident] ELSE "Identifier"
  IN TokenNew(ident, kind, line, column)

RECURSIVE NumberEnd(_, _, _)
NumberEnd(s, idx, isInteger) ==
  IF idx < Len(s)
    THEN IF IsDigit(CharAt(s, idx)) THEN NumberEnd(s, idx + 1, isInteger)
         ELSE IF CharAt(s, idx) = "." /\ isInteger THEN NumberEnd(s, idx + 1, FALSE)
         ELSE [idx |-> idx, isInteger |-> isInteger]
    ELSE [idx |-> idx, isInteger |-> isInteger]

ParseNumber(s, start, line, column) ==
  LET first == IF CharAt(s, start) = "-" THEN start + 1 ELSE start
      e == NumberEnd(s, first, TRUE)
  IN TokenNew(SubSeq(s, start + 1, e.idx), IF e.isInteger THEN "Int" ELSE "Float",
              line, column)

\* the escape table of parse_string
Unescape(c) ==
  CASE c = "n" -> "\n"
    [] c = "t" -> "\t"
    [] c = "r" -> "\r"
    [] OTHER -> c

RECURSIVE StringScan(_, _, _, _, _)
StringScan(s, idx, quote, escaped, content) ==
  IF idx < Len(s)
    THEN LET c == CharAt(s, idx) IN
         IF escaped THEN StringScan(s, idx + 1, quote, FALSE, Append(content, Unescape(c)))
         ELSE IF c = "\\" THEN StringScan(s, idx + 1, quote, TRUE, content)
         ELSE IF c = quote THEN [idx |-> idx + 1, content |-> content]
         ELSE StringScan(s, idx + 1, quote, FALSE, Append(content, c))
    ELSE [idx |-> idx, content |-> content]

ParseString(s, start, line, column) ==
  LET e == StringScan(s, start + 1, CharAt(s, start), FALSE, << >>)
  IN WithLength(TokenNew(e.content, "String", line, column), e.idx - start)

ParseOperators(line, column, cur) ==
  IF cur \in OperatorChars THEN Some(TokenNew(<<cur>>, "Operator", line, column)) ELSE None

TokenizeChar(s, start, line, column) ==
  LET len == Len(s)
      cur == CharAt(s, start)
      next == CharAt(s, start + 1)
      two == <<cur, next>>
  IN
  IF start >= len THEN NoToken
  ELSE IF cur = "/" /\ start + 1 < len /\ next = "/"
    THEN LET idx == LineCommentEnd(s, start + 2) IN
         SomeToken(WithLength(TokenNew(SubSeq(s, start + 3, idx), "SingleLineComment",
                                       line, column), idx - start),
                   idx - start)
  ELSE IF cur = "/" /\ start + 1 < len /\ next = "*"
    THEN LET e == BlockCommentEnd(s, start + 2)
             stop == IF e.closed THEN e.idx - 2 ELSE e.idx IN
         IF e.panic THEN PanicToken
         ELSE SomeToken(WithLength(TokenNew(SubSeq(s, start + 3, stop), "MultiLineComment",
                                            line, column), e.idx - start),
                        e.idx - start)
  ELSE IF start + 1 < len /\ two \in TwoCharTokens
    THEN SomeToken(TokenNew(two, "Operator", line, column), 2)
  ELSE IF IsAlphabetic(cur) \/ cur = "_"
    THEN LET token == ParseIdentifier(s, start, line, column) IN
         SomeToken(token, ByteLen(token.value))
  ELSE IF ParseOperators(line, column, cur).some
    THEN IF cur = "/" /\ start + 1 < len /\ next \in {"/", "*"}
           THEN NoToken
           ELSE SomeToken(ParseOperators(line, column, cur).v, 1)
  ELSE IF IsDigit(cur) \/ (cur = "-" /\ start + 1 < len /\ IsDigit(next))
    THEN LET token == ParseNumber(s, start, line, column) IN
         SomeToken(token, ByteLen(token.value))
  ELSE IF cur \in {"\"", "'"}
    THEN LET token == ParseString(s, start, line, column) IN
         SomeToken(token, token.length)
  ELSE IF cur \in OneCharTokens
    THEN SomeToken(TokenNew(<<cur>>, "Punctuation", line, column), 1)
  ELSE NoToken

\* token.value.matches('\n').count()
RECURSIVE CountNewlines(_)
CountNewlines(str) ==
  IF str = << >> THEN 0
  ELSE (IF Head(str) = "\n" THEN 1 ELSE 0) + CountNewlines(Tail(str))

\* token.value.rsplit('\n').next(): the text after the last newline
RECURSIVE LastLine(_)
LastLine(str) ==
  IF str = << >> THEN << >>
  ELSE IF str[Len(str)] = "\n" THEN << >>
  ELSE Append(LastLine(SubSeq(str, 1, Len(str) - 1)), str[Len(str)])

(***************************************************************************)
(* The evaluator (eval/expression.rs, eval/statement.rs).                  *)
(*                                                                         *)
(* i64 is scaled down to IntBits bits, two's complement.  f64 is modelled  *)
(* by exact rationals num/den in lowest terms; the values the model draws  *)
(* are dyadic, for which the f64 operations used here are exact.           *)
(***************************************************************************)
IntBits == 4

RECURSIVE Pow2(_)
Pow2(n) == IF n = 0 THEN 1 ELSE 2 * Pow2(n - 1)

MinInt == -Pow2(IntBits - 1)

MaxInt == Pow2(IntBits - 1) - 1

InRange(n) == MinInt <= n /\ n <= MaxInt

\* the two's complement value of n reduced to IntBits bits
Wrap(n) == ((n - MinInt) % Pow2(IntBits)) + MinInt

Abs(n) == IF n < 0 THEN -n ELSE n

\* Rust's `/` and `%` on integers: the quotient truncates toward zero and the
\* remainder takes the sign of the dividend.
TruncDiv(l, r) ==
  IF (l < 0) = (r < 0) THEN Abs(l) \div Abs(r) ELSE -(Abs(l) \div Abs(r))

TruncRem(l, r) == l - r * TruncDiv(l, r)

RECURSIVE Gcd(_, _)
Gcd(a, b) == IF b = 0 THEN a ELSE Gcd(b, a % b)

FloatV(num, den) ==
  LET g == Gcd(Abs(num), Abs(den))
      sgn == IF den < 0 THEN -1 ELSE 1
  IN [t |-> "Float", num |-> sgn * (num \div g), den |-> sgn * (den \div g)]

FunctionV(params, body) == [t |-> "Function", params |-> params, body |-> body]

\* Result<Value, String> of the value helpers, and the panic of the thread.
Ok(v) == [tag |-> "Ok", v |-> v]

Err(msg) == [tag |-> "Err", msg |-> msg]

Panic == [tag |-> "Panic"]

\* l + r, l - r, l * r on i64 with the mathematical result n: an overflow
\* panics when the build has overflow checks and wraps when it has none.
CheckedArith(n) ==
  IF InRange(n) THEN Ok(IntV(n))
  ELSE IF overflowChecks THEN Panic
  ELSE Ok(IntV(Wrap(n)))

\* l / r on i64, r # 0: MIN / -1 panics in every build.
IntDivide(l, r) ==
  IF l = MinInt /\ r = -1 THEN Panic ELSE Ok(IntV(TruncDiv(l, r)))

\* l % r on i64, r # 0: MIN % -1 panics in every build.
IntRemainder(l, r) ==
  IF l = MinInt /\ r = -1 THEN Panic ELSE Ok(IntV(TruncRem(l, r)))

(***************************************************************************)
(* Display for Value (environment/mod.rs, fmt_with_indent).                *)
(***************************************************************************)
Digit(d) ==
  CASE d = 0 -> "0" [] d = 1 -> "1" [] d = 2 -> "2" [] d = 3 -> "3" [] d = 4 -> "4"
    [] d = 5 -> "5" [] d = 6 -> "6" [] d = 7 -> "7" [] d = 8 -> "8" [] d = 9 -> "9"

RECURSIVE NatToString(_)
NatToString(n) ==
  IF n < 10 THEN Digit(n) ELSE NatToString(n \div 10) \o Digit(n % 10)

\* format!("{}", i) for an integer
IntToString(n) == IF n < 0 THEN "-" \o NatToString(-n) ELSE NatToString(n)

\* the decimal digits of rem/den, at most `fuel` of them
RECURSIVE FractionDigits(_, _, _)
FractionDigits(rem, den, fuel) ==
  IF rem = 0 \/ fuel = 0 THEN ""
  ELSE Digit((rem * 10) \div den) \o FractionDigits((rem * 10) % den, den, fuel - 1)

\* format!("{}", f) for a float: no fraction is printed for a whole number
FloatToString(f) ==
  LET a == Abs(f.num)
      whole == (IF f.num < 0 THEN "-" ELSE "") \o NatToString(a \div f.den)
  IN IF a % f.den = 0 THEN whole
     ELSE whole \o "." \o FractionDigits(a % f.den, f.den, 17)

\* "  ".repeat(n)
RECURSIVE IndentStr(_)
IndentStr(n) == IF n = 0 THEN "" ELSE "  " \o IndentStr(n - 1)

RECURSIVE FmtWithIndent(_, _, _)
RECURSIVE FmtElements(_, _, _)
RECURSIVE FmtEntries(_, _, _, _, _)
FmtWithIndent(v, indent, inContainer) ==
  CASE v.t = "Array" ->
         IF v.a = << >> THEN "[]"
         ELSE "[\n" \o FmtElements(v.a, 1, indent) \o IndentStr(indent) \o "]"
    [] v.t = "Object" ->
         LET keys == IF MapHas(v.o, "__keys__") /\ v.o["__keys__"].t = "Array"
                       THEN v.o["__keys__"].a ELSE << >>
         IN IF keys = << >> THEN "{}"
            ELSE "{\n" \o FmtEntries(v.o, keys, 1, indent, TRUE)
                   \o "\n" \o IndentStr(indent) \o "}"
    [] v.t = "String" -> IF inContainer THEN "\"" \o v.s \o "\"" ELSE v.s
    [] v.t = "Int" -> IntToString(v.i)
    [] v.t = "Float" -> FloatToString(v)
    [] v.t = "Boolean" -> IF v.b THEN "true" ELSE "false"
    [] v.t = "Function" -> "<function>"
    [] v.t = "NativeFunction" -> "<native function>"
    [] v.t = "Void" -> "void"

\* the loop over arr.iter().enumerate(), from element k on
FmtElements(arr, k, indent) ==
  IF k > Len(arr) THEN ""
  ELSE IndentStr(indent + 1) \o FmtWithIndent(arr[k], indent + 1, TRUE)
         \o (IF k < Len(arr) THEN ",\n" ELSE "\n")
         \o FmtElements(arr, k + 1, indent)

\* the loop over the `__keys__` array, from key k on
FmtEntries(obj, keys, k, indent, first) ==
  IF k > Len(keys) THEN ""
  ELSE IF keys[k].t = "String" /\ keys[k].s # "__keys__" /\ MapHas(obj, keys[k].s)
    THEN (IF first THEN "" ELSE ",\n")
           \o IndentStr(indent + 1) \o "\"" \o keys[k].s \o "\": "
           \o FmtWithIndent(obj[keys[k].s], indent + 1, TRUE)
           \o FmtEntries(obj, keys, k + 1, indent, FALSE)
    ELSE FmtEntries(obj, keys, k + 1, indent, first)

\* value.to_string()
ValueToString(v) == FmtWithIndent(v, 0, FALSE)

(***************************************************************************)
(* The ZekkenError constructors (errors/mod.rs).  The colour escapes that  *)
(* colorize adds around the extra text are left out.                       *)
(***************************************************************************)
RuntimeError(msg, line, column, details) ==
  ZekkenError("Runtime", msg, line, column, details)

TypeError(msg, expected, found, line, column) ==
  ZekkenError("Type", msg, line, column,
              Some("  expected: " \o expected \o "\n  found:    " \o found \o "\n"))

ReferenceError(msg, kind, line, column) ==
  ZekkenError("Reference", msg, line, column, Some("  kind: " \o kind \o "\n"))

InternalError(msg) == ZekkenError("Internal", msg, 0, 0, None)

(***************************************************************************)
(* The value helpers of eval/expression.rs.                                *)
(***************************************************************************)
AddValues(left, right) ==
  CASE left.t = "Int" /\ right.t = "Int" -> CheckedArith(left.i + right.i)
    [] left.t = "Float" /\ right.t = "Float" ->
         Ok(FloatV(left.num * right.den + right.num * left.den, left.den * right.den))
    [] left.t = "String" /\ right.t = "String" -> Ok(StringV(left.s \o right.s))
    [] left.t = "String" /\ right.t # "String" ->
         Ok(StringV(left.s \o ValueToString(right)))
    [] left.t # "String" /\ right.t = "String" ->
         Ok(StringV(ValueToString(left) \o right.s))
    [] left.t = "Array" /\ right.t = "Array" -> Ok(ArrayV(left.a \o right.a))
    [] OTHER -> Err("Invalid operand types for addition")

SubtractValues(left, right) ==
  CASE left.t = "Int" /\ right.t = "Int" -> CheckedArith(left.i - right.i)
    [] left.t = "Float" /\ right.t = "Float" ->
         Ok(FloatV(left.num * right.den - right.num * left.den, left.den * right.den))
    [] OTHER -> Err("Invalid operand types for subtraction")

MultiplyValues(left, right) ==
  CASE left.t = "Int" /\ right.t = "Int" -> CheckedArith(left.i * right.i)
    [] left.t = "Float" /\ right.t = "Float" ->
         Ok(FloatV(left.num * right.num, left.den * right.den))
    [] OTHER -> Err("Invalid operand types for multiplication")

DivideValues(left, right) ==
  CASE left.t = "Int" /\ right.t = "Int" ->
         IF right.i = 0 THEN Err("Division by zero") ELSE IntDivide(left.i, right.i)
    [] left.t = "Float" /\ right.t = "Float" ->
         IF right.num = 0 THEN Err("Division by zero")
         ELSE Ok(FloatV(left.num * right.den, left.den * right.num))
    [] OTHER -> Err("Invalid operand types for division")

ModuloValues(left, right) ==
  CASE left.t = "Int" /\ right.t = "Int" ->
         IF right.i = 0 THEN Err("Modulo by zero") ELSE IntRemainder(left.i, right.i)
    [] OTHER -> Err("Invalid operand types for modulo")

CompareValues(left, right) ==
  CASE left.t = "Int" /\ right.t = "Int" -> left.i = right.i
    [] left.t = "Float" /\ right.t = "Float" -> left = right
    [] left.t = "String" /\ right.t = "String" -> left.s = right.s
    [] left.t = "Boolean" /\ right.t = "Boolean" -> left.b = right.b
    [] OTHER -> FALSE

\* l < r on two floats num/den with positive denominators
FloatLess(l, r) == l.num * r.den < r.num * l.den

CompareLessThan(left, right) ==
  CASE left.t = "Int" /\ right.t = "Int" -> Ok(BoolV(left.i < right.i))
    [] left.t = "Float" /\ right.t = "Float" -> Ok(BoolV(FloatLess(left, right)))
    [] OTHER -> Err("Invalid comparison")

CompareGreaterThan(left, right) ==
  CASE left.t = "Int" /\ right.t = "Int" -> Ok(BoolV(left.i > right.i))
    [] left.t = "Float" /\ right.t = "Float" -> Ok(BoolV(FloatLess(right, left)))
    [] OTHER -> Err("Invalid comparison")

CompareLessEqual(left, right) ==
  CASE left.t = "Int" /\ right.t = "Int" -> Ok(BoolV(left.i <= right.i))
    [] left.t = "Float" /\ right.t = "Float" -> Ok(BoolV(~FloatLess(right, left)))
    [] OTHER -> Err("Invalid comparison")

CompareGreaterEqual(left, right) ==
  CASE left.t = "Int" /\ right.t = "Int" -> Ok(BoolV(left.i >= right.i))
    [] left.t = "Float" /\ right.t = "Float" -> Ok(BoolV(~FloatLess(left, right)))
    [] OTHER -> Err("Invalid comparison")

LogicalAnd(left, right) ==
  IF left.t = "Boolean" /\ right.t = "Boolean" THEN Ok(BoolV(left.b /\ right.b))
  ELSE Err("Invalid logical AND operation")

LogicalOr(left, right) ==
  IF left.t = "Boolean" /\ right.t = "Boolean" THEN Ok(BoolV(left.b \/ right.b))
  ELSE Err("Invalid logical OR operation")

\* msg.contains("zero"), over the messages the value helpers produce
ContainsZero(msg) == msg \in {"Division by zero", "Modulo by zero"}

(***************************************************************************)
(* Value::call_method and its handlers (environment/mod.rs).  A handler    *)
(* returns Result<Value, String>; push and pop also assign through `env`.  *)
(* A branch the model does not translate answers Unmodelled, and no        *)
(* evaluation of the specifications below reaches one.                     *)
(***************************************************************************)
TypeName(v) ==
  CASE v.t = "Int" -> "int"
    [] v.t = "Float" -> "float"
    [] v.t = "String" -> "string"
    [] v.t = "Boolean" -> "boolean"
    [] v.t = "Array" -> "array"
    [] v.t = "Object" -> "object"
    [] v.t = "NativeFunction" -> "native function"
    [] v.t = "Function" -> "function"
    [] v.t = "Void" -> "void"

MOk(v, e) == [tag |-> "Ok", v |-> v, env |-> e]

MErr(msg, e) == [tag |-> "Err", msg |-> msg, env |-> e]

MUnmodelled(e) == [tag |-> "Unmodelled", env |-> e]

\* arr.iter().map(|v| v.to_string()).collect::<Vec<_>>().join(delim)
RECURSIVE Join(_, _, _)
Join(arr, k, delim) ==
  IF k > Len(arr) THEN ""
  ELSE ValueToString(arr[k]) \o (IF k < Len(arr) THEN delim ELSE "")
         \o Join(arr, k + 1, delim)

\* The mutant of HandleArrayMethod: push and pop work on the clone only.
HandleArrayMethodOnCopy(arr, methodName, args, e, variableName) ==
  CASE methodName = "push" ->
         IF Len(args) # 1 THEN MErr("push requires exactly one argument", e)
         ELSE MOk(ArrayV(Append(arr, args[1])), e)
    [] methodName = "pop" ->
         IF arr = << >> THEN MErr("Array is empty", e)
         ELSE MOk(arr[Len(arr)], e)
    [] OTHER -> MErr("Array method '" \o methodName \o "' not supported", e)

HandleArrayMethod(arr, methodName, args, e, variableName) ==
  CASE methodName = "length" -> MOk(IntV(Len(arr)), e)
    [] methodName = "first" ->
         IF arr # << >> THEN MOk(arr[1], e) ELSE MErr("Array is empty", e)
    [] methodName = "last" ->
         IF arr # << >> THEN MOk(arr[Len(arr)], e) ELSE MErr("Array is empty", e)
    [] methodName = "push" ->
         IF Len(args) # 1 THEN MErr("push requires exactly one argument", e)
         ELSE IF ~variableName.some
           THEN MErr("push requires a variable name to update the original array", e)
         ELSE LET newArr == Append(arr, args[1])
                  r == Assign(e, variableName.v, ArrayV(newArr))
              IN IF r.ok THEN MOk(ArrayV(newArr), r.env)
                 ELSE MErr("Failed to update array: " \o r.err, r.env)
    [] methodName = "pop" ->
         IF arr = << >> THEN MErr("Array is empty", e)
         ELSE LET newArr == SubSeq(arr, 1, Len(arr) - 1)
                  r == IF variableName.some
                         THEN Assign(e, variableName.v, ArrayV(newArr))
                         ELSE [ok |-> TRUE, err |-> "", env |-> e]
              IN IF r.ok THEN MOk(arr[Len(arr)], r.env)
                 ELSE MErr("Failed to update array: " \o r.err, r.env)
    [] methodName = "join" ->
         IF Len(args) # 1 THEN MErr("join requires one string argument", e)
         ELSE IF args[1].t # "String" THEN MErr("join argument must be a string", e)
         ELSE MOk(StringV(Join(arr, 1, args[1].s)), e)
    [] OTHER -> MErr("Array method '" \o methodName \o "' not supported", e)

HandleStringMethod(s, methodName, args, e) ==
  CASE methodName = "length" -> MOk(IntV(Len(s)), e)
    [] methodName \in {"toUpper", "toLower", "trim", "split"} -> MUnmodelled(e)
    [] OTHER -> MErr("String method '" \o methodName \o "' not supported", e)

\* obj.get("__keys__") when it is an array, else the empty vector
KeysOf(obj) ==
  IF MapHas(obj, "__keys__") /\ obj["__keys__"].t = "Array"
    THEN obj["__keys__"].a ELSE << >>

\* keys.into_iter().filter_map(..) of "keys"
RECURSIVE OrderedKeys(_, _)
OrderedKeys(keys, k) ==
  IF k > Len(keys) THEN << >>
  ELSE (IF keys[k].t = "String" /\ keys[k].s # "__keys__"
          THEN <<StringV(keys[k].s)>> ELSE << >>) \o OrderedKeys(keys, k + 1)

\* keys.into_iter().filter_map(..) of "values"
RECURSIVE OrderedValues(_, _, _)
OrderedValues(obj, keys, k) ==
  IF k > Len(keys) THEN << >>
  ELSE (IF keys[k].t = "String" /\ keys[k].s # "__keys__" /\ MapHas(obj, keys[k].s)
          THEN <<obj[keys[k].s]>> ELSE << >>) \o OrderedValues(obj, keys, k + 1)

\* keys.into_iter().filter_map(..) of "entries"
RECURSIVE OrderedEntries(_, _, _)
OrderedEntries(obj, keys, k) ==
  IF k > Len(keys) THEN << >>
  ELSE (IF keys[k].t = "String" /\ keys[k].s # "__keys__" /\ MapHas(obj, keys[k].s)
          THEN <<ArrayV(<<StringV(keys[k].s), obj[keys[k].s]>>)>> ELSE << >>)
         \o OrderedEntries(obj, keys, k + 1)

HandleObjectMethod(obj, methodName, args, e) ==
  CASE methodName = "keys" -> MOk(ArrayV(OrderedKeys(KeysOf(obj), 1)), e)
    [] methodName = "values" -> MOk(ArrayV(OrderedValues(obj, KeysOf(obj), 1)), e)
    [] methodName = "entries" -> MOk(ArrayV(OrderedEntries(obj, KeysOf(obj), 1)), e)
    [] methodName = "hasKey" ->
         IF Len(args) # 1 THEN MErr("hasKey requires one string argument", e)
         ELSE IF args[1].t = "String" THEN MOk(BoolV(MapHas(obj, args[1].s)), e)
         ELSE MErr("hasKey argument must be a string", e)
    [] methodName = "get" ->
         IF Len(args) # 2
           THEN MErr("get requires two arguments: key and default value", e)
         ELSE IF args[1].t = "String"
           THEN MOk(IF MapHas(obj, args[1].s) THEN obj[args[1].s] ELSE args[2], e)
         ELSE MErr("get first argument must be a string", e)
    [] OTHER -> MErr("Object method '" \o methodName \o "' not supported", e)

HandleIntMethod(n, methodName, args, e) ==
  CASE methodName = "isEven" -> MOk(BoolV(TruncRem(n, 2) = 0), e)
    [] methodName = "isOdd" -> MOk(BoolV(TruncRem(n, 2) # 0), e)
    [] OTHER -> MErr("Integer method '" \o methodName \o "' not supported", e)

HandleFloatMethod(f, methodName, args, e) ==
  CASE methodName \in {"round", "floor", "ceil", "isEven", "isOdd"} -> MUnmodelled(e)
    [] OTHER -> MErr("Float method '" \o methodName \o "' not supported", e)

(***************************************************************************)
(* Evaluation results.  An evaluation works on st = [env, out, fuel]: the  *)
(* Environment it was handed by &mut, the text written to stdout, and the  *)
(* number of calls and loop iterations still allowed.  Its result is       *)
(* Result<_, ZekkenError> together with the state it left behind, or a     *)
(* panic, or Diverge when the fuel ran out.                                *)
(***************************************************************************)
ROk(v, st) == [tag |-> "Ok", v |-> v, st |-> st]

RErr(e, st) == [tag |-> "Err", e |-> e, st |-> st]

RPanic(st) == [tag |-> "Panic", st |-> st]

RDiverge(st) == [tag |-> "Diverge", st |-> st]

RUnmodelled(st) == [tag |-> "Unmodelled", st |-> st]

\* result.map_err(toError) of a value helper, in the state st
MapErr(res, toError(_), st) ==
  CASE res.tag = "Ok" -> ROk(res.v, st)
    [] res.tag = "Err" -> RErr(toError(res.msg), st)
    [] res.tag = "Panic" -> RPanic(st)
    [] res.tag = "Unmodelled" -> RUnmodelled(st)

\* The native functions Environment::new installs.  input is modelled with
\* stdin at end of file.
CallNative(name, args, st) ==
  CASE name = "println" ->
         IF args = << >>
           THEN [tag |-> "Ok", v |-> VoidV, st |-> [st EXCEPT !.out = Append(@, "\n")]]
           ELSE [tag |-> "Ok", v |-> VoidV,
                 st |-> [st EXCEPT !.out = Append(@, ValueToString(args[1]) \o "\n")]]
    [] name = "input" ->
         IF args = << >>
           THEN [tag |-> "Err", msg |-> "Input requires a prompt string", st |-> st]
           ELSE [tag |-> "Ok", v |-> StringV(""),
                 st |-> [st EXCEPT !.out = Append(@, ValueToString(args[1]))]]
    [] name = "parse_json" ->
         IF Len(args) = 1 /\ args[1].t = "String"
           THEN [tag |-> "Unmodelled", st |-> st]
           ELSE [tag |-> "Err", msg |-> "parse_json expects a single string argument",
                 st |-> st]

\* the handler's Result, with the Environment it assigned through
InState(m, st) ==
  CASE m.tag = "Ok" -> [tag |-> "Ok", v |-> m.v, st |-> [st EXCEPT !.env = m.env]]
    [] m.tag = "Err" -> [tag |-> "Err", msg |-> m.msg, st |-> [st EXCEPT !.env = m.env]]
    [] m.tag = "Unmodelled" -> [tag |-> "Unmodelled", st |-> st]

CallMethod(self, methodName, args, st, variableName) ==
  CASE self.t = "String" -> InState(HandleStringMethod(self.s, methodName, args, st.env), st)
    [] self.t = "Array" ->
         InState(HandleArrayMethod(self.a, methodName, args, st.env, variableName), st)
    [] self.t = "Object" ->
         IF MapHas(self.o, methodName) /\ self.o[methodName].t = "NativeFunction"
           THEN CallNative(self.o[methodName].native, args, st)
           ELSE InState(HandleObjectMethod(self.o, methodName, args, st.env), st)
    [] self.t = "Int" -> InState(HandleIntMethod(self.i, methodName, args, st.env), st)
    [] self.t = "Float" -> InState(HandleFloatMethod(self, methodName, args, st.env), st)
    [] OTHER -> [tag |-> "Err", st |-> st,
                 msg |-> "Type '" \o TypeName(self) \o "' does not support methods"]

\* .map_err(|s| ZekkenError::runtime(&s, line, column, None)) of a call
CallResult(m, line, column) ==
  CASE m.tag = "Ok" -> ROk(m.v, m.st)
    [] m.tag = "Err" -> RErr(RuntimeError(m.msg, line, column, None), m.st)
    [] m.tag = "Unmodelled" -> RUnmodelled(m.st)

(***************************************************************************)
(* evaluate_binary_expression, after both operands have been evaluated.    *)
(***************************************************************************)
BinaryOp(operator, left, right, line, column, st) ==
  LET invalid(msg) == TypeError(msg, "valid types", "invalid types", line, column)
      nonBool(msg) == TypeError(msg, "boolean", "non-boolean", line, column)
      divError(msg) ==
        RuntimeError(msg, line, column,
                     IF ContainsZero(msg) THEN Some("division by zero") ELSE None)
  IN
  IF (left.t = "Int" /\ right.t = "Float") \/ (left.t = "Float" /\ right.t = "Int")
    THEN RErr(TypeError("Cannot perform '" \o operator
                          \o "' operation between int and float",
                        "int or float", "mixed types", line, column), st)
  ELSE CASE operator = "+" -> MapErr(AddValues(left, right), invalid, st)
         [] operator = "-" -> MapErr(SubtractValues(left, right), invalid, st)
         [] operator = "*" -> MapErr(MultiplyValues(left, right), invalid, st)
         [] operator = "/" -> MapErr(DivideValues(left, right), divError, st)
         [] operator = "%" -> MapErr(ModuloValues(left, right), invalid, st)
         [] operator = "==" -> ROk(BoolV(CompareValues(left, right)), st)
         [] operator = "!=" -> ROk(BoolV(~CompareValues(left, right)), st)
         [] operator = "<" -> MapErr(CompareLessThan(left, right), invalid, st)
         [] operator = ">" -> MapErr(CompareGreaterThan(left, right), invalid, st)
         [] operator = "<=" -> MapErr(CompareLessEqual(left, right), invalid, st)
         [] operator = ">=" -> MapErr(CompareGreaterEqual(left, right), invalid, st)
         [] operator = "&&" -> MapErr(LogicalAnd(left, right), nonBool, st)
         [] operator = "||" -> MapErr(LogicalOr(left, right), nonBool, st)
         [] OTHER -> RErr(RuntimeError("Unknown operator: " \o operator,
                                       line, column, None), st)

(***************************************************************************)
(* The syntax tree (ast.rs): Expr, Stmt and Content as records tagged by   *)
(* the variant, each with its source location.                             *)
(***************************************************************************)
Location(line, column) == [line |-> line, column |-> column]

IntLit(value, loc) == [t |-> "IntLit", value |-> value, location |-> loc]

FloatLit(num, den, loc) == [t |-> "FloatLit", num |-> num, den |-> den, location |-> loc]

StringLit(value, loc) == [t |-> "StringLit", value |-> value, location |-> loc]

BoolLit(value, loc) == [t |-> "BoolLit", value |-> value, location |-> loc]

ArrayLit(elements, loc) == [t |-> "ArrayLit", elements |-> elements, location |-> loc]

Property(key, value, loc) == [key |-> key, value |-> value, location |-> loc]

ObjectLit(properties, loc) ==
  [t |-> "ObjectLit", properties |-> properties, location |-> loc]

Identifier(name, loc) == [t |-> "Identifier", name |-> name, location |-> loc]

BinaryExpr(left, operator, right, loc) ==
  [t |-> "Binary", left |-> left, operator |-> operator, right |-> right,
   location |-> loc]

CallExpr(callee, args, loc) ==
  [t |-> "Call", callee |-> callee, args |-> args, location |-> loc]

MemberExpr(object, property, loc) ==
  [t |-> "Member", object |-> object, property |-> property, location |-> loc]

AssignExpr(left, operator, right, loc) ==
  [t |-> "Assign", left |-> left, operator |-> operator, right |-> right,
   location |-> loc]

Expression(expr) == [c |-> "Expression", expr |-> expr]

Statement(stmt) == [c |-> "Statement", stmt |-> stmt]

Param(ident, type) == [ident |-> ident, type |-> type]

VarDecl(constant, ident, type, value, loc) ==
  [t |-> "VarDecl", constant |-> constant, ident |-> ident, type |-> type,
   value |-> value, location |-> loc]

FuncDecl(ident, params, body, loc) ==
  [t |-> "FuncDecl", ident |-> ident, params |-> params, body |-> body,
   location |-> loc]

IfStmt(test, body, alt, loc) ==
  [t |-> "IfStmt", test |-> test, body |-> body, alt |-> alt, location |-> loc]

ForStmt(init, body, loc) == [t |-> "ForStmt", init |-> init, body |-> body, location |-> loc]

WhileStmt(test, body, loc) ==
  [t |-> "WhileStmt", test |-> test, body |-> body, location |-> loc]

TryCatchStmt(tryBlock, catchBlock, loc) ==
  [t |-> "TryCatchStmt", try_block |-> tryBlock, catch_block |-> catchBlock,
   location |-> loc]

BlockStmt(body, loc) == [t |-> "BlockStmt", body |-> body, location |-> loc]

ReturnStmt(value, loc) == [t |-> "Return", value |-> value, location |-> loc]

(***************************************************************************)
(* Parser::parse_object_properties (parser/mod.rs): the properties in      *)
(* source order, followed by the synthetic `__keys__` property that lists  *)
(* every key read, in order.                                               *)
(***************************************************************************)
RECURSIVE KeyOrder(_, _)
KeyOrder(props, k) ==
  IF k > Len(props) THEN << >>
  ELSE <<StringLit(props[k].key, Location(0, 0))>> \o KeyOrder(props, k + 1)

ParseObjectProperties(props) ==
  Append(props, Property("__keys__", ArrayLit(KeyOrder(props, 1), Location(0, 0)),
                         Location(0, 0)))

(***************************************************************************)
(* evaluate_expression (eval/expression.rs).                               *)
(***************************************************************************)
\* The `?` operator: an error, a panic or a divergence of r leaves the
\* function with r; otherwise the rest of the function runs on r.
Try(r, rest(_)) == IF r.tag # "Ok" THEN r ELSE rest(r)

\* let r = ..; rest
Let(r, rest(_)) == rest(r)

\* the result r, its Environment replaced by the one the caller holds
WithEnv(r, e) == [r EXCEPT !.st.env = e]

RECURSIVE EvalExpr(_, _)
RECURSIVE EvalElements(_, _, _, _)
RECURSIVE EvalProperties(_, _, _, _)
RECURSIVE EvalBinary(_, _)
RECURSIVE EvalCall(_, _)
RECURSIVE CallBody(_, _, _, _)
RECURSIVE EvalMember(_, _)
RECURSIVE EvalAssign(_, _)
RECURSIVE EvalStmt(_, _)
RECURSIVE EvalBlockContent(_, _, _, _)

\* for element in elements { values.push(evaluate_expression(element, env)?) }
EvalElements(elements, k, st, values) ==
  IF k > Len(elements) THEN ROk(values, st)
  ELSE Try(EvalExpr(elements[k], st),
           LAMBDA r : EvalElements(elements, k + 1, r.st, Append(values, r.v)))

\* for prop in properties { map.insert(prop.key, evaluate_expression(..)?) }
EvalProperties(properties, k, st, map) ==
  IF k > Len(properties) THEN ROk(map, st)
  ELSE Try(EvalExpr(properties[k].value, st),
           LAMBDA r : EvalProperties(properties, k + 1, r.st,
                                     MapInsert(map, properties[k].key, r.v)))

\* Expr::Identifier
EvalIdentifier(ident, found, st) ==
  IF found.some THEN ROk(found.v, st)
  ELSE RErr(ReferenceError("Variable '" \o ident.name \o "' not found", ident.name,
                           ident.location.line, ident.location.column), st)

EvalExpr(expr, st) ==
  CASE expr.t = "IntLit" -> ROk(IntV(expr.value), st)
    [] expr.t = "FloatLit" -> ROk(FloatV(expr.num, expr.den), st)
    [] expr.t = "StringLit" -> ROk(StringV(expr.value), st)
    [] expr.t = "BoolLit" -> ROk(BoolV(expr.value), st)
    [] expr.t = "ArrayLit" ->
         Try(EvalElements(expr.elements, 1, st, << >>),
             LAMBDA r : ROk(ArrayV(r.v), r.st))
    [] expr.t = "ObjectLit" ->
         Try(EvalProperties(expr.properties, 1, st, EmptyMap),
             LAMBDA r : ROk(ObjectV(r.v), r.st))
    [] expr.t = "Identifier" -> EvalIdentifier(expr, Lookup(st.env, expr.name), st)
    [] expr.t = "Binary" -> EvalBinary(expr, st)
    [] expr.t = "Call" -> EvalCall(expr, st)
    [] expr.t = "Member" -> EvalMember(expr, st)
    [] expr.t = "Assign" -> EvalAssign(expr, st)
    [] expr.t = "Property" ->
         RErr(InternalError("Property expression not supported in this context"), st)

EvalBinary(expr, st) ==
  Try(EvalExpr(expr.left, st), LAMBDA left :
  Try(EvalExpr(expr.right, left.st), LAMBDA right :
  BinaryOp(expr.operator, left.v, right.v, expr.location.line, expr.location.column,
           right.st)))

\* function_env.declare(param.ident, arg, false) for the zipped pairs
RECURSIVE DeclareParams(_, _, _, _)
DeclareParams(e, params, args, k) ==
  IF k > Len(params) THEN e
  ELSE DeclareParams(Declare(e, params[k].ident, args[k], FALSE), params, args, k + 1)

\* The loop over func.body from content k on: an expression's error leaves
\* the call, a statement's error is dropped, and a statement that yields
\* Some(value), as `return` does, only replaces `result`.
CallBody(body, k, st, result) ==
  IF k > Len(body) THEN ROk(result, st)
  ELSE IF body[k].c = "Expression"
    THEN Try(EvalExpr(body[k].expr, st), LAMBDA r : CallBody(body, k + 1, r.st, r.v))
    ELSE Let(EvalStmt(body[k].stmt, st), LAMBDA r :
           IF r.tag \in {"Panic", "Diverge", "Unmodelled"} THEN r
           ELSE IF r.tag = "Ok" /\ r.v.some THEN CallBody(body, k + 1, r.st, r.v.v)
           ELSE CallBody(body, k + 1, r.st, result))

\* The call of a method: the callee is a member expression.
CallMember(call, st) ==
  Try(EvalExpr(call.callee.object, st), LAMBDA object :
  IF call.callee.property.t # "Identifier"
    THEN RErr(TypeError("Invalid method name", "identifier", "other",
                        call.location.line, call.location.column), object.st)
  ELSE Try(EvalElements(call.args, 1, object.st, << >>), LAMBDA args :
       CallResult(CallMethod(object.v, call.callee.property.name, args.v, args.st,
                             IF call.callee.object.t = "Identifier"
                               THEN Some(call.callee.object.name) ELSE None),
                  call.location.line, call.location.column)))

\* The call of a Value::Function: one unit of fuel per call.
CallFunction(call, func, st) ==
  IF Len(call.args) # Len(func.params)
    THEN RErr(RuntimeError("Expected " \o IntToString(Len(func.params))
                             \o " arguments but got " \o IntToString(Len(call.args)),
                           call.location.line, call.location.column,
                           Some("argument mismatch")), st)
  ELSE Try(EvalElements(call.args, 1, st, << >>), LAMBDA args :
       IF args.st.fuel = 0 THEN RDiverge(args.st)
       ELSE \* function_env is dropped; the caller's env is untouched
            WithEnv(CallBody(func.body, 1,
                             [args.st EXCEPT
                                !.env = DeclareParams(NewWithParent(@), func.params,
                                                      args.v, 1),
                                !.fuel = @ - 1],
                             VoidV),
                    args.st.env))

EvalCall(call, st) ==
  IF call.callee.t = "Member" THEN CallMember(call, st)
  ELSE Try(EvalExpr(call.callee, st), LAMBDA callee :
       CASE callee.v.t = "NativeFunction" ->
              Try(EvalElements(call.args, 1, callee.st, << >>), LAMBDA args :
                  CallResult(CallNative(callee.v.native, args.v, args.st),
                             call.location.line, call.location.column))
         [] callee.v.t = "Function" -> CallFunction(call, callee.v, callee.st)
         [] OTHER ->
              RErr(TypeError("Cannot call non-function value", "function",
                             "non-function", call.location.line, call.location.column),
                   callee.st))

\* lit.value as usize, on the scaled width
AsUsize(n) == n % Pow2(IntBits)

\* map.get(&property) of a member access by name
NamedMember(object, property, line, column, st) ==
  IF object.t = "Object"
    THEN IF MapHas(object.o, property) THEN ROk(object.o[property], st)
         ELSE RErr(ReferenceError("Property '" \o property \o "' not found", property,
                                  line, column), st)
    ELSE RErr(TypeError("Invalid member access", "object", "other", line, column), st)

\* a member access by an integer literal
IndexedMember(object, idx, line, column, st) ==
  CASE object.t = "Array" ->
         IF idx < Len(object.a) THEN ROk(object.a[idx + 1], st)
         ELSE RErr(RuntimeError("Array index " \o IntToString(idx) \o " out of bounds",
                                line, column, None), st)
    [] object.t = "Object" ->
         IF MapHas(object.o, "__keys__") /\ object.o["__keys__"].t = "Array"
           THEN IF idx < Len(object.o["__keys__"].a)
                   /\ object.o["__keys__"].a[idx + 1].t = "String"
                  THEN IF MapHas(object.o, object.o["__keys__"].a[idx + 1].s)
                         THEN ROk(object.o[object.o["__keys__"].a[idx + 1].s], st)
                         ELSE RErr(ReferenceError(
                                     "Property '" \o object.o["__keys__"].a[idx + 1].s
                                       \o "' not found",
                                     object.o["__keys__"].a[idx + 1].s, line, column), st)
                  ELSE RErr(RuntimeError("Object index " \o IntToString(idx)
                                           \o " out of bounds", line, column, None), st)
           ELSE RErr(RuntimeError("Object does not support numeric indexing",
                                  line, column, None), st)
    [] OTHER -> RErr(TypeError("Invalid member access", "object/array", "other",
                               line, column), st)

EvalMember(member, st) ==
  Try(EvalExpr(member.object, st), LAMBDA object :
  CASE member.property.t = "Identifier" ->
         NamedMember(object.v, member.property.name, member.location.line,
                     member.location.column, object.st)
    [] member.property.t = "StringLit" ->
         NamedMember(object.v, member.property.value, member.location.line,
                     member.location.column, object.st)
    [] member.property.t = "IntLit" ->
         IndexedMember(object.v, AsUsize(member.property.value), member.location.line,
                       member.location.column, object.st)
    [] OTHER -> RErr(TypeError("Invalid property access", "string/int/identifier",
                               "other", member.location.line, member.location.column),
                     object.st))

\* env.assign(&left, value).map_err(runtime), then Ok(value)
AssignValue(left, value, line, column, st) ==
  Let(Assign(st.env, left, value), LAMBDA a :
    IF a.ok THEN ROk(value, [st EXCEPT !.env = a.env])
    ELSE RErr(RuntimeError(a.err, line, column, None), [st EXCEPT !.env = a.env]))

\* the value helper of a compound assignment operator
CompoundValue(operator, left, right) ==
  CASE operator = "+=" -> AddValues(left, right)
    [] operator = "-=" -> SubtractValues(left, right)
    [] operator = "*=" -> MultiplyValues(left, right)
    [] operator = "/=" -> DivideValues(left, right)
    [] operator = "%=" -> ModuloValues(left, right)

\* Handle compound assignments (+=, -=, *=, /=, %=)
CompoundAssign(assign, leftVal, st) ==
  IF ~leftVal.some
    THEN RErr(ReferenceError("Variable '" \o assign.left.name \o "' not found",
                             assign.left.name, assign.location.line,
                             assign.location.column), st)
  ELSE Try(EvalExpr(assign.right, st), LAMBDA rightVal :
       IF assign.operator \notin {"+=", "-=", "*=", "/=", "%="}
         THEN RErr(RuntimeError("Unknown operator: " \o assign.operator,
                                assign.location.line, assign.location.column, None),
                   rightVal.st)
       ELSE Let(CompoundValue(assign.operator, leftVal.v, rightVal.v), LAMBDA result :
            IF result.tag # "Ok"
              THEN MapErr(result,
                          LAMBDA msg : RuntimeError(msg, assign.location.line,
                                                    assign.location.column, None),
                          rightVal.st)
              ELSE AssignValue(assign.left.name, result.v, assign.location.line,
                               assign.location.column, rightVal.st)))

EvalAssign(assign, st) ==
  IF assign.left.t # "Identifier"
    THEN RErr(TypeError("Invalid assignment target", "identifier", "other",
                        assign.location.line, assign.location.column), st)
  ELSE IF assign.operator # "="
    THEN CompoundAssign(assign, Lookup(st.env, assign.left.name), st)
  ELSE Try(EvalExpr(assign.right, st), LAMBDA value :
       AssignValue(assign.left.name, value.v, assign.location.line,
                   assign.location.column, value.st))

(***************************************************************************)
(* evaluate_statement (eval/statement.rs).  A statement yields             *)
(* Result<Option<Value>, ZekkenError>.                                     *)
(***************************************************************************)
\* Display for ZekkenError outside the REPL, colours off, with no current
\* file: the context reads "<unknown>" and "<line not found>".
RECURSIVE Spaces(_)
Spaces(n) == IF n <= 0 THEN "" ELSE " " \o Spaces(n - 1)

ErrorKindTitle(kind) ==
  CASE kind = "Syntax" -> "Syntax Error"
    [] kind = "Runtime" -> "Runtime Error"
    [] kind = "Type" -> "Type Error"
    [] kind = "Reference" -> "Reference Error"
    [] kind = "Internal" -> "Internal Error"

ErrorToString(error) ==
  LET filename == IF error.kind = "Internal" THEN "<internal>" ELSE "<unknown>"
      content == IF error.kind = "Internal" THEN "" ELSE "<line not found>"
      number == IntToString(error.line)
  IN "\n" \o ErrorKindTitle(error.kind) \o ": " \o error.message
       \o "\n     | " \o filename \o " -> [Ln: " \o number
       \o ", Col: " \o IntToString(error.column) \o "]"
       \o "\n     |\n" \o Spaces(4 - Len(number)) \o number \o " | " \o content
       \o "\n     | " \o Spaces(error.column - 1) \o "^\n"
       \o (IF error.extra.some THEN error.extra.v ELSE "")

CheckValueType(value, expected) ==
  \/ value.t = "Int" /\ expected = "Int"
  \/ value.t = "Float" /\ expected = "Float"
  \/ value.t = "String" /\ expected = "String"
  \/ value.t = "Boolean" /\ expected = "Bool"
  \/ value.t = "Array" /\ expected = "Array"
  \/ value.t = "Object" /\ expected = "Object"
  \/ value.t = "Function" /\ expected = "Fn"

ValueTypeName(v) ==
  CASE v.t = "Int" -> "int"
    [] v.t = "Float" -> "float"
    [] v.t = "String" -> "string"
    [] v.t = "Boolean" -> "bool"
    [] v.t = "Array" -> "array"
    [] v.t = "Object" -> "object"
    [] v.t = "Function" -> ""
    [] v.t = "NativeFunction" -> ""
    [] v.t = "Void" -> "void"

\* The identifiers a program of the model may use.
Idents == {"x", "y", "z", "f", "k", "v", "e", "a"}

\* idents.join(", ") as the parser writes the loop variables of a for
RECURSIVE JoinIdents(_, _)
JoinIdents(ids, k) ==
  IF k > Len(ids) THEN ""
  ELSE ids[k] \o (IF k < Len(ids) THEN ", " ELSE "") \o JoinIdents(ids, k + 1)

\* ident.split(", "): the identifiers whose join is ident
SplitIdents(ident) ==
  CHOOSE ids \in [1..1 -> Idents] \cup [1..2 -> Idents] \cup [1..3 -> Idents] :
    JoinIdents(ids, 1) = ident

\* Handle code block content: the loop of evaluate_block_content from
\* content k on, `result` holding the value of the last one evaluated.
EvalBlockContent(content, k, st, result) ==
  IF k > Len(content) THEN ROk(result, st)
  ELSE IF content[k].c = "Statement"
    THEN Try(EvalStmt(content[k].stmt, st),
             LAMBDA r : EvalBlockContent(content, k + 1, r.st, r.v))
    ELSE Try(EvalExpr(content[k].expr, st),
             LAMBDA r : EvalBlockContent(content, k + 1, r.st, Some(r.v)))

\* the value a declaration binds: the initialiser's, type-checked when it
\* is an expression
DeclaredValue(decl, st) ==
  CASE ~decl.value.some -> ROk(VoidV, st)
    [] decl.value.some /\ decl.value.v.c = "Expression" ->
         Try(EvalExpr(decl.value.v.expr, st), LAMBDA val :
           IF ~CheckValueType(val.v, decl.type)
             THEN RErr(TypeError("Type mismatch in variable declaration '"
                                   \o decl.ident \o "'",
                                 decl.type, ValueTypeName(val.v),
                                 decl.location.line, decl.location.column), val.st)
             ELSE val)
    [] decl.value.some /\ decl.value.v.c = "Statement" ->
         Try(EvalStmt(decl.value.v.stmt, st), LAMBDA val :
           ROk(IF val.v.some THEN val.v.v ELSE VoidV, val.st))

EvalVarDeclaration(decl, st) ==
  Try(DeclaredValue(decl, st), LAMBDA r :
    ROk(None, [r.st EXCEPT !.env = Declare(@, decl.ident, r.v, decl.constant)]))

EvalFunctionDeclaration(func, st) ==
  ROk(None, [st EXCEPT !.env = Declare(@, func.ident,
                                       FunctionV(func.params, func.body), FALSE)])

EvalIfStatement(stmt, st) ==
  Try(EvalExpr(stmt.test, st), LAMBDA test :
    IF test.v.t = "Boolean"
      THEN IF test.v.b THEN EvalBlockContent(stmt.body, 1, test.st, None)
           ELSE IF stmt.alt.some THEN EvalBlockContent(stmt.alt.v, 1, test.st, None)
           ELSE ROk(None, test.st)
      ELSE RErr(TypeError("If statement condition must evaluate to a boolean", "bool",
                          ValueTypeName(test.v), stmt.location.line,
                          stmt.location.column), test.st))

\* The `loop` of evaluate_while_statement; one unit of fuel per iteration.
RECURSIVE WhileLoop(_, _, _)
WhileLoop(stmt, st, result) ==
  Try(EvalExpr(stmt.test, st), LAMBDA test :
    IF test.v.t # "Boolean"
      THEN RErr(TypeError("While loop condition must evaluate to a boolean", "bool",
                          ValueTypeName(test.v), stmt.location.line,
                          stmt.location.column), test.st)
    ELSE IF ~test.v.b THEN ROk(result, test.st)
    ELSE IF test.st.fuel = 0 THEN RDiverge(test.st)
    ELSE Try(EvalBlockContent(stmt.body, 1, [test.st EXCEPT !.fuel = @ - 1], result),
             LAMBDA body : WhileLoop(stmt, body.st, body.v)))

EvalWhileStatement(stmt, st) == WhileLoop(stmt, st, None)

\* create_dummy_value
CreateDummyValue(type) ==
  CASE type = "String" -> StringV("")
    [] type = "Int" -> IntV(0)
    [] type = "Float" -> FloatV(0, 1)
    [] type = "Bool" -> BoolV(FALSE)
    [] type = "Array" -> ArrayV(<< >>)
    [] type = "Object" -> ObjectV(EmptyMap)
    [] type = "Fn" -> FunctionV(<< >>, << >>)
    [] OTHER -> VoidV

\* The loop of evaluate_for_array from element k on: the loop variable is
\* declared in, and the body runs on, the Environment of the statement.
RECURSIVE ForArrayLoop(_, _, _, _, _)
ForArrayLoop(arr, k, ident, body, st) ==
  IF k > Len(arr) THEN ROk(None, st)
  ELSE Try(EvalBlockContent(body, 1,
                            [st EXCEPT !.env = Declare(@, ident, arr[k], FALSE)], None),
           LAMBDA r : ForArrayLoop(arr, k + 1, ident, body, r.st))

EvalForArray(arr, varDecl, idents, body, st) ==
  IF Len(idents) # 1
    THEN RErr(ZekkenError("Syntax", "Array iteration requires one identifier",
                          varDecl.location.line, varDecl.location.column, None), st)
    ELSE ForArrayLoop(arr, 1, idents[1], body, st)

\* The loop of evaluate_for_object from key k on, on iter_env.
RECURSIVE ForObjectLoop(_, _, _, _, _, _, _)
ForObjectLoop(map, keys, k, idents, varDecl, body, st) ==
  IF k > Len(keys) THEN ROk(None, st)
  ELSE IF keys[k].t = "String" /\ MapHas(map, keys[k].s)
    THEN IF varDecl.type # "Any" /\ ~CheckValueType(map[keys[k].s], varDecl.type)
           THEN RErr(TypeError("Type mismatch in for loop value: expected "
                                 \o varDecl.type \o ", found "
                                 \o ValueTypeName(map[keys[k].s]),
                               varDecl.type, ValueTypeName(map[keys[k].s]),
                               varDecl.location.line, varDecl.location.column), st)
           ELSE Try(EvalBlockContent(body, 1,
                      [st EXCEPT !.env = Declare(Declare(@, idents[1],
                                                         StringV(keys[k].s), FALSE),
                                                 idents[2], map[keys[k].s], FALSE)],
                      None),
                    LAMBDA r : ForObjectLoop(map, keys, k + 1, idents, varDecl, body,
                                             r.st))
    ELSE ForObjectLoop(map, keys, k + 1, idents, varDecl, body, st)

\* iter_env: a child of a clone of env, with the loop variables declared
IterEnv(e, idents, type) ==
  IF type = "Any" THEN Declare(NewWithParent(e), idents[1], StringV(""), FALSE)
  ELSE Declare(Declare(NewWithParent(e), idents[1], StringV(""), FALSE),
               idents[2], CreateDummyValue(type), FALSE)

EvalForObject(map, varDecl, idents, body, st) ==
  IF Len(idents) # 2
    THEN RErr(ZekkenError("Syntax",
                          "Object iteration requires two identifiers (key, value)",
                          varDecl.location.line, varDecl.location.column, None), st)
  ELSE IF ~(MapHas(map, "__keys__") /\ map["__keys__"].t = "Array")
    THEN RErr(TypeError("Object missing key order", "array", "missing",
                        varDecl.location.line, varDecl.location.column), st)
  ELSE \* iter_env is dropped; the Environment of the statement is untouched
       WithEnv(ForObjectLoop(map, map["__keys__"].a, 1, idents, varDecl, body,
                             [st EXCEPT !.env = IterEnv(@, idents, varDecl.type)]),
               st.env)

EvalForStatement(stmt, st) ==
  IF ~stmt.init.some
    THEN RErr(RuntimeError("For loop requires an initialization", stmt.location.line,
                           stmt.location.column, None), st)
  ELSE IF stmt.init.v.t # "VarDecl"
    THEN RErr(RuntimeError("For loop requires a variable declaration",
                           stmt.location.line, stmt.location.column, None), st)
  ELSE IF ~stmt.init.v.value.some
    THEN RErr(RuntimeError("For loop initialization requires a value",
                           stmt.location.line, stmt.location.column, None), st)
  ELSE IF stmt.init.v.value.v.c # "Expression"
    THEN RErr(RuntimeError("Expected expression in for loop initialization",
                           stmt.location.line, stmt.location.column,
                           Some("for |x| in array { ... }")), st)
  ELSE Try(EvalExpr(stmt.init.v.value.v.expr, st), LAMBDA collection :
       CASE collection.v.t = "Object" ->
              EvalForObject(collection.v.o, stmt.init.v, SplitIdents(stmt.init.v.ident),
                            stmt.body, collection.st)
         [] collection.v.t = "Array" ->
              EvalForArray(collection.v.a, stmt.init.v, SplitIdents(stmt.init.v.ident),
                           stmt.body, collection.st)
         [] OTHER ->
              RErr(TypeError("For loop must iterate over an object or array",
                             "object or array", ValueTypeName(collection.v),
                             stmt.location.line, stmt.location.column), collection.st))

\* The object `e` that evaluate_try_catch declares in catch_env.
ErrorObject(error) ==
  ObjectV(MapInsert(MapInsert(MapInsert(MapInsert(MapInsert(EmptyMap,
    "message", StringV(error.message)),
    "kind", StringV(KindDebug(error.kind))),
    "line", IntV(error.line)),
    "column", IntV(error.column)),
    "__zekken_error__", StringV(ErrorToString(error))))

\* catch_env: a child of a clone of env that binds `e`
CatchEnv(e, error) == Declare(NewWithParent(e), "e", ErrorObject(error), FALSE)

\* The mutant of CatchBlock: the error of the try block is returned after
\* the catch block has run.
CatchBlockRethrowing(catchBlock, try) ==
  IF catchBlock.some
    THEN Let(EvalBlockContent(catchBlock.v, 1,
                              [try.st EXCEPT !.env = CatchEnv(@, try.e)], None),
             LAMBDA r : RErr(try.e, [r.st EXCEPT !.env = try.st.env]))
    ELSE try

\* The Err(error) arm of evaluate_try_catch, `try` the failed try block:
\* catch_env is dropped and the Environment of the statement is untouched.
CatchBlock(catchBlock, try) ==
  IF catchBlock.some
    THEN WithEnv(EvalBlockContent(catchBlock.v, 1,
                                  [try.st EXCEPT !.env = CatchEnv(@, try.e)], None),
                 try.st.env)
    ELSE try

EvalTryCatch(stmt, st) ==
  Let(EvalBlockContent(stmt.try_block, 1, st, None), LAMBDA try :
    IF try.tag = "Err" THEN CatchBlock(stmt.catch_block, try) ELSE try)

EvalReturn(ret, st) ==
  IF ~ret.value.some THEN ROk(Some(VoidV), st)
  ELSE IF ret.value.v.c = "Expression"
    THEN Try(EvalExpr(ret.value.v.expr, st), LAMBDA value : ROk(Some(value.v), value.st))
    ELSE EvalStmt(ret.value.v.stmt, st)

EvalStmt(stmt, st) ==
  CASE stmt.t = "VarDecl" -> EvalVarDeclaration(stmt, st)
    [] stmt.t = "FuncDecl" -> EvalFunctionDeclaration(stmt, st)
    [] stmt.t = "IfStmt" -> EvalIfStatement(stmt, st)
    [] stmt.t = "ForStmt" -> EvalForStatement(stmt, st)
    [] stmt.t = "WhileStmt" -> EvalWhileStatement(stmt, st)
    [] stmt.t = "TryCatchStmt" -> EvalTryCatch(stmt, st)
    [] stmt.t = "BlockStmt" -> EvalBlockContent(stmt.body, 1, st, None)
    [] stmt.t = "Return" -> EvalReturn(stmt, st)
    [] OTHER -> RUnmodelled(st)

(***************************************************************************)
(* evaluate_program and what it calls (eval/statement.rs, eval/lint.rs).   *)
(* The interpreter state of these operators carries, besides env, out and  *)
(* fuel, the process variable ZEKKEN_CURRENT_FILE (`file`, None when it is *)
(* unset), the error accumulator (`set`, `list`) and the files an include  *)
(* can read (`files`, from path to the Program the parser returns for the  *)
(* file's text).  A path is the sequence of its components.                *)
(***************************************************************************)
IncludeStmt(file_path, methods, loc) ==
  [t |-> "Include", file_path |-> file_path, methods |-> methods, location |-> loc]

UseStmt(module, methods, loc) ==
  [t |-> "Use", module |-> module, methods |-> methods, location |-> loc]

ProgramNode(imports, content) ==
  [t |-> "Program", imports |-> imports, content |-> content]

\* push_error on the accumulator of the interpreter state
PushErrorIn(st, error) ==
  [st EXCEPT !.set = PushErrorInto(st.set, st.list, error).set,
             !.list = PushErrorInto(st.set, st.list, error).list]

\* the initialiser is a call whose callee is an identifier bound to a
\* native function
IsNativeCall(expr, e) ==
  /\ expr.t = "Call"
  /\ expr.callee.t = "Identifier"
  /\ Lookup(e, expr.callee.name).some
  /\ Lookup(e, expr.callee.name).v.t = "NativeFunction"

\* what the pre-pass does with the result r of evaluating an initialiser:
\* a value of another type than declared is reported through push_error, an
\* error is dropped
ScopeTypeCheck(var_decl, r) ==
  CASE r.tag = "Ok" ->
         ROk(None,
             IF CheckValueType(r.v, var_decl.type) THEN r.st
             ELSE PushErrorIn(r.st,
                    TypeError("Type mismatch in variable declaration '" \o var_decl.ident
                                \o "': expected " \o var_decl.type \o ", found "
                                \o ValueTypeName(r.v),
                              var_decl.type, ValueTypeName(r.v),
                              var_decl.location.line, var_decl.location.column)))
    [] r.tag = "Err" -> ROk(None, r.st)
    [] OTHER -> r

\* The initialiser of a declaration in the pre-pass: a call of a native
\* function is not evaluated (its name never equals "@input": the parser
\* keeps the identifier after the `@`), every other expression is.
ScopeInitialiser(var_decl, st) ==
  IF ~var_decl.value.some THEN ROk(None, st)
  ELSE IF var_decl.value.v.c = "Statement" THEN ROk(None, st)
  ELSE IF IsNativeCall(var_decl.value.v.expr, st.env) THEN ROk(None, st)
  ELSE ScopeTypeCheck(var_decl, EvalExpr(var_decl.value.v.expr, st))

ScopeVarDecl(var_decl, st) ==
  IF Len(SplitIdents(var_decl.ident)) > 1
    THEN ROk(None, [st EXCEPT !.env = Declare(@, var_decl.ident, VoidV, FALSE)])
    ELSE Try(ScopeInitialiser(var_decl, st), LAMBDA r :
           ROk(None, [r.st EXCEPT !.env = Declare(@, var_decl.ident,
                                                  CreateDummyValue(var_decl.type),
                                                  var_decl.constant)]))

\* the parameters declared with the dummy values of their types
RECURSIVE DeclareDummies(_, _, _)
DeclareDummies(e, params, k) ==
  IF k > Len(params) THEN e
  ELSE DeclareDummies(Declare(e, params[k].ident, CreateDummyValue(params[k].type), FALSE),
                      params, k + 1)

RECURSIVE ProcessStatementScope(_, _)
RECURSIVE ProcessScopeContents(_, _, _)

\* process_statement_scope on the statements of a body, from the k-th on
ProcessScopeContents(body, k, st) ==
  IF k > Len(body) THEN ROk(None, st)
  ELSE IF body[k].c = "Statement"
    THEN Try(ProcessStatementScope(body[k].stmt, st),
             LAMBDA r : ProcessScopeContents(body, k + 1, r.st))
    ELSE ProcessScopeContents(body, k + 1, st)

ProcessStatementScope(stmt, st) ==
  CASE stmt.t = "VarDecl" -> ScopeVarDecl(stmt, st)
    [] stmt.t = "FuncDecl" ->
         ProcessScopeContents(stmt.body, 1,
           [st EXCEPT !.env = DeclareDummies(Declare(@, stmt.ident,
                                                     FunctionV(stmt.params, stmt.body),
                                                     FALSE),
                                             stmt.params, 1)])
    [] stmt.t = "BlockStmt" -> ProcessScopeContents(stmt.body, 1, st)
    [] stmt.t = "ForStmt" ->
         Try(IF stmt.init.some THEN ProcessStatementScope(stmt.init.v, st)
             ELSE ROk(None, st),
             LAMBDA r : ProcessScopeContents(stmt.body, 1, r.st))
    [] stmt.t = "Lambda" -> RUnmodelled(st)
    [] OTHER -> ROk(None, st)

\* Environment::lookup_with_kind is no part of the source at hand; lint.rs
\* compares the kind it returns with Some("constant"), which is taken to
\* name a binding that lookup answers from a `constants` map.
RECURSIVE LookupKindAt(_, _, _)
LookupKindAt(e, d, name) ==
  IF MapHas(e[d].variables, name) THEN "variable"
  ELSE IF MapHas(e[d].constants, name) THEN "constant"
  ELSE IF d > 1 THEN LookupKindAt(e, d - 1, name)
  ELSE "none"

RECURSIVE LintExpression(_, _)
RECURSIVE LintArguments(_, _, _)
RECURSIVE LintStatement(_, _)
RECURSIVE LintContents(_, _, _)

\* lint_expression on the arguments of a call, from the k-th on; None is
\* Ok(()), Some(e) is Err(e)
LintArguments(args, k, e) ==
  IF k > Len(args) THEN None
  ELSE IF LintExpression(args[k], e).some THEN LintExpression(args[k], e)
  ELSE LintArguments(args, k + 1, e)

\* the Call arm of lint_expression
LintCall(call, e) ==
  IF call.callee.t = "Identifier"
    THEN CASE ~Lookup(e, call.callee.name).some ->
                IF Lookup(e, "@" \o call.callee.name).some
                     /\ Lookup(e, "@" \o call.callee.name).v.t = "NativeFunction"
                  THEN None
                  ELSE Some(ReferenceError("Function '" \o call.callee.name
                                             \o "' not found", "function",
                                           call.location.line, call.location.column))
           [] Lookup(e, call.callee.name).some
                /\ Lookup(e, call.callee.name).v.t = "NativeFunction" -> None
           [] Lookup(e, call.callee.name).some
                /\ Lookup(e, call.callee.name).v.t = "Function" ->
                LintArguments(call.args, 1, e)
           [] OTHER ->
                Some(TypeError("Cannot call non-function value", "function",
                               "non-function", call.location.line, call.location.column))
    ELSE IF LintExpression(call.callee, e).some THEN LintExpression(call.callee, e)
    ELSE LintArguments(call.args, 1, e)

LintExpression(expr, e) ==
  CASE expr.t = "Identifier" ->
         IF Lookup(e, expr.name).some THEN None
         ELSE Some(ReferenceError("Variable '" \o expr.name \o "' not found", "variable",
                                  expr.location.line, expr.location.column))
    [] expr.t = "Call" -> LintCall(expr, e)
    [] expr.t = "Assign" ->
         IF expr.left.t # "Identifier"
           THEN Some(TypeError("Invalid assignment target", "identifier", "other",
                               expr.location.line, expr.location.column))
         ELSE IF LookupKindAt(e, Len(e), expr.left.name) = "constant"
           THEN Some(RuntimeError("Cannot assign to constant '" \o expr.left.name \o "'",
                                  expr.location.line, expr.location.column, None))
         ELSE LintExpression(expr.right, e)
    [] expr.t = "Member" -> LintExpression(expr.object, e)
    [] OTHER -> None

\* the loop over a body that lint_statement repeats for every kind of block
LintContents(body, k, e) ==
  IF k > Len(body) THEN None
  ELSE IF body[k].c = "Expression"
    THEN IF LintExpression(body[k].expr, e).some THEN LintExpression(body[k].expr, e)
         ELSE LintContents(body, k + 1, e)
    ELSE IF LintStatement(body[k].stmt, e).some THEN LintStatement(body[k].stmt, e)
         ELSE LintContents(body, k + 1, e)

LintStatement(stmt, e) ==
  CASE stmt.t = "VarDecl" ->
         IF stmt.value.some THEN LintContents(<<stmt.value.v>>, 1, e) ELSE None
    [] stmt.t = "FuncDecl" -> LintContents(stmt.body, 1, e)
    [] stmt.t = "IfStmt" ->
         IF LintExpression(stmt.test, e).some THEN LintExpression(stmt.test, e)
         ELSE IF LintContents(stmt.body, 1, e).some THEN LintContents(stmt.body, 1, e)
         ELSE IF stmt.alt.some THEN LintContents(stmt.alt.v, 1, e)
         ELSE None
    [] stmt.t = "ForStmt" ->
         IF stmt.init.some /\ LintStatement(stmt.init.v, e).some
           THEN LintStatement(stmt.init.v, e)
           ELSE LintContents(stmt.body, 1, e)
    [] stmt.t = "WhileStmt" ->
         IF LintExpression(stmt.test, e).some THEN LintExpression(stmt.test, e)
         ELSE LintContents(stmt.body, 1, e)
    [] stmt.t = "TryCatchStmt" ->
         IF LintContents(stmt.try_block, 1, e).some THEN LintContents(stmt.try_block, 1, e)
         ELSE IF stmt.catch_block.some THEN LintContents(stmt.catch_block.v, 1, e)
         ELSE None
    [] OTHER -> None

\* unwrap_or_else(|_| "<unknown>") of the process variable
UnknownFile == <<"<unknown>">>

CurrentFile(st) == IF st.file.some THEN st.file.v ELSE UnknownFile

\* Path::parent, and PathBuf::push of a relative path
PathParent(path) == SubSeq(path, 1, Len(path) - 1)

\* to_string_lossy of a path
RECURSIVE PathText(_)
PathText(path) ==
  IF path = << >> THEN ""
  ELSE IF Len(path) = 1 THEN path[1]
  ELSE path[1] \o "/" \o PathText(Tail(path))

\* lint_include: the file must exist beside the current file
LintInclude(include, st) ==
  IF PathParent(CurrentFile(st)) \o include.file_path \in DOMAIN st.files THEN None
  ELSE Some(RuntimeError("File '" \o PathText(include.file_path) \o "' not found",
                         include.location.line, include.location.column, None))

\* math::register: the object of the library, with its native functions by
\* name; the float and complex constants PI, E and I are left out
MathObject ==
  ObjectV([k \in {"sqrt", "pow", "abs", "sin", "cos", "tan", "vector", "dot", "matrix",
                  "matmul"} |-> NativeV("math." \o k)])

\* lint_use: the library must be one of math, fs and os, and the methods
\* asked for must be members of it; only math is translated
LintUse(use_stmt) ==
  IF use_stmt.module \notin {"math", "fs", "os"}
    THEN Some(RuntimeError("Library '" \o use_stmt.module \o "' not found",
                           use_stmt.location.line, use_stmt.location.column, None))
  ELSE IF use_stmt.methods.some
            /\ \E i \in 1..Len(use_stmt.methods.v) :
                 ~MapHas(MathObject.o, use_stmt.methods.v[i])
    THEN Some(ReferenceError("Method '"
                \o use_stmt.methods.v[CHOOSE i \in 1..Len(use_stmt.methods.v) :
                     /\ ~MapHas(MathObject.o, use_stmt.methods.v[i])
                     /\ \A j \in 1..(i - 1) : MapHas(MathObject.o, use_stmt.methods.v[j])]
                \o "' not found in library '" \o use_stmt.module \o "'", "function",
              use_stmt.location.line, use_stmt.location.column))
  ELSE None

\* the methods of the library object declared one by one, from the k-th on
RECURSIVE UseMethods(_, _, _, _)
UseMethods(use_stmt, lib_obj, k, st) ==
  IF k > Len(use_stmt.methods.v) THEN ROk(None, st)
  ELSE IF MapHas(lib_obj, use_stmt.methods.v[k])
    THEN UseMethods(use_stmt, lib_obj, k + 1,
                    [st EXCEPT !.env = Declare(@, use_stmt.methods.v[k],
                                               lib_obj[use_stmt.methods.v[k]], FALSE)])
    ELSE RErr(RuntimeError("Method '" \o use_stmt.methods.v[k]
                             \o "' not found in library '" \o use_stmt.module \o "'",
                           use_stmt.location.line, use_stmt.location.column, None), st)

\* evaluate_use of the math library, the only one the registry holds, where
\* `__IMPORT_METHODS__` is unbound: register declares the constant `math`
EvaluateUse(use_stmt, st) ==
  IF use_stmt.module # "math" \/ Lookup(st.env, "__IMPORT_METHODS__").some
    THEN RUnmodelled(st)
  ELSE IF use_stmt.methods.some
    THEN UseMethods(use_stmt, MathObject.o, 1,
                    [st EXCEPT !.env = Declare(@, "math", MathObject, TRUE)])
  ELSE ROk(None, [st EXCEPT !.env = Declare(@, "math", MathObject, TRUE)])

\* the errors of a Vec pushed in order, the Internal ones skipped
RECURSIVE PushAll(_, _, _)
PushAll(errors, k, st) ==
  IF k > Len(errors) THEN st
  ELSE PushAll(errors, k + 1,
               IF errors[k].kind = "Internal" THEN st ELSE PushErrorIn(st, errors[k]))

\* the names of child_env.variables declared in env, in any order
RECURSIVE ExportAll(_, _, _)
ExportAll(names, variables, e) ==
  IF names = {} THEN e
  ELSE ExportAll(names \ {CHOOSE n \in names : TRUE}, variables,
                 Declare(e, CHOOSE n \in names : TRUE,
                         variables[CHOOSE n \in names : TRUE], FALSE))

\* the methods of an include looked up in child_env and declared in env
RECURSIVE ExportMethods(_, _, _, _)
ExportMethods(include, k, child_env, st) ==
  IF k > Len(include.methods.v) THEN ROk(None, st)
  ELSE IF Lookup(child_env, include.methods.v[k]).some
    THEN ExportMethods(include, k + 1, child_env,
                       [st EXCEPT !.env = Declare(@, include.methods.v[k],
                                                  Lookup(child_env, include.methods.v[k]).v,
                                                  FALSE)])
    ELSE RErr(RuntimeError("Method '" \o include.methods.v[k]
                             \o "' not found in included file",
                           include.location.line, include.location.column, None), st)

\* what evaluate_include does once the included Program has returned
\* `result` to the state `st` it was called in: the process variable is set
\* to the saved text, the error is propagated, the bindings are copied; the
\* fuel, which bounds the depth of the calls, is what it was
IncludeReturn(include, st, result) ==
  CASE result.tag = "Ok" /\ include.methods.some ->
         ExportMethods(include, 1, result.st.env,
                       [result.st EXCEPT !.file = Some(CurrentFile(st)), !.fuel = st.fuel,
                                         !.env = st.env])
    [] result.tag = "Ok" /\ ~include.methods.some ->
         ROk(None, [result.st EXCEPT
                      !.file = Some(CurrentFile(st)), !.fuel = st.fuel,
                      !.env = ExportAll(DOMAIN result.st.env[Len(result.st.env)].variables,
                                        result.st.env[Len(result.st.env)].variables,
                                        st.env)])
    [] result.tag = "Err" ->
         RErr(result.e, [result.st EXCEPT !.file = Some(CurrentFile(st)), !.fuel = st.fuel,
                                          !.env = st.env])
    [] OTHER -> result

\* the path evaluate_include reads: relative to the directory of the current
\* file, or to nothing when that is unknown and ZEKKEN_CURRENT_DIR is unbound
IncludePath(include, st) ==
  (IF CurrentFile(st) = UnknownFile THEN << >> ELSE PathParent(CurrentFile(st)))
    \o include.file_path

RECURSIVE EvaluateProgram(_, _)
RECURSIVE EvaluateInclude(_, _)
RECURSIVE ImportPass(_, _, _, _)
RECURSIVE ImportsAgain(_, _, _)

\* evaluate_include; an include that is entered without fuel does not return
EvaluateInclude(include, st) ==
  IF CurrentFile(st) = UnknownFile /\ Lookup(st.env, "ZEKKEN_CURRENT_DIR").some
    THEN RUnmodelled(st)
  ELSE IF IncludePath(include, st) \notin DOMAIN st.files
    THEN RErr(RuntimeError("Failed to include file '" \o PathText(IncludePath(include, st))
                             \o "': No such file or directory (os error 2)",
                           include.location.line, include.location.column, None), st)
  ELSE IF st.fuel = 0 THEN RDiverge(st)
  ELSE IncludeReturn(include, st,
         EvaluateProgram(st.files[IncludePath(include, st)],
                         [st EXCEPT !.file = Some(IncludePath(include, st)),
                                    !.env = NewWithParent(@),
                                    !.fuel = @ - 1]))

\* one import of the first loop over program.imports, with the result r of
\* its evaluation: an error is collected
ImportCollected(r, errors) ==
  CASE r.tag = "Ok" -> ROk(errors, r.st)
    [] r.tag = "Err" -> ROk(Append(errors, r.e), r.st)
    [] OTHER -> r

\* the k-th import of the first loop: linted, and evaluated on temp_env when
\* lint accepts it
ImportOne(import, st, errors) ==
  CASE import.t = "Include" ->
         IF LintInclude(import, st).some
           THEN ROk(Append(errors, LintInclude(import, st).v), st)
           ELSE ImportCollected(EvaluateInclude(import, st), errors)
    [] import.t = "Use" ->
         IF LintUse(import).some THEN ROk(Append(errors, LintUse(import).v), st)
         ELSE ImportCollected(EvaluateUse(import, st), errors)
    [] OTHER -> RUnmodelled(st)

ImportPass(imports, k, st, errors) ==
  IF k > Len(imports) THEN ROk(errors, st)
  ELSE Try(ImportOne(imports[k].stmt, st, errors),
           LAMBDA r : ImportPass(imports, k + 1, r.st, r.v))

\* the k-th import of the second loop: evaluated on env, its error returned
ImportAgain(import, st) ==
  CASE import.t = "Include" -> EvaluateInclude(import, st)
    [] import.t = "Use" -> EvaluateUse(import, st)
    [] OTHER -> RUnmodelled(st)

ImportsAgain(imports, k, st) ==
  IF k > Len(imports) THEN ROk(None, st)
  ELSE Try(ImportAgain(imports[k].stmt, st),
           LAMBDA r : ImportsAgain(imports, k + 1, r.st))

\* the two loops of process_statement_scope over program.content
PrePass(content, st) ==
  Try(ProcessScopeContents(content, 1, st),
      LAMBDA r : ProcessScopeContents(content, 1, r.st))

\* the lint loop: the error of every top-level item that has one
RECURSIVE LintPass(_, _, _)
LintPass(content, k, e) ==
  IF k > Len(content) THEN << >>
  ELSE LET r == IF content[k].c = "Statement" THEN LintStatement(content[k].stmt, e)
                ELSE LintExpression(content[k].expr, e)
       IN (IF r.some THEN <<r.v>> ELSE << >>) \o LintPass(content, k + 1, e)

\* the value and the state one item of the execution loop leaves
ItemResult(item, st) ==
  IF item.c = "Statement" THEN EvalStmt(item.stmt, st)
  ELSE Try(EvalExpr(item.expr, st), LAMBDA r : ROk(Some(r.v), r.st))

\* the execution loop from item k on
RECURSIVE ExecLoop(_, _, _, _, _)
ExecLoop(content, k, st, last, failed) ==
  IF k > Len(content)
    THEN IF failed THEN RErr(InternalError("Multiple runtime errors occurred"), st)
         ELSE ROk(last, st)
  ELSE Let(ItemResult(content[k], st), LAMBDA r :
         CASE r.tag = "Ok" -> ExecLoop(content, k + 1, r.st, r.v, failed)
           [] r.tag = "Err" ->
                ExecLoop(content, k + 1, PushErrorIn(r.st, r.e), last, TRUE)
           [] OTHER -> r)

\* evaluate_program after the import pass, on temp_env (the Environment of
\* `st`); `caller` is the Environment the caller keeps when lint refuses
AfterImports(prog, st, caller) ==
  Try(PrePass(prog.content, st), LAMBDA scoped :
    Let(LintPass(prog.content, 1, scoped.st.env), LAMBDA lint_errors :
      IF lint_errors # << >>
        THEN RErr(InternalError("Linting errors found"),
                  [PushAll(lint_errors, 1, scoped.st) EXCEPT !.env = caller])
        ELSE Try(ImportsAgain(prog.imports, 1, scoped.st), LAMBDA imported :
               ExecLoop(prog.content, 1, imported.st, None, FALSE))))

EvaluateProgram(prog, st) ==
  Try(ImportPass(prog.imports, 1, st, << >>), LAMBDA imports :
    IF imports.v # << >>
      THEN RErr(InternalError("Import errors found"),
                [PushAll(imports.v, 1, imports.st) EXCEPT !.env = st.env])
      ELSE AfterImports(prog, imports.st, st.env))

(***************************************************************************)
(* SpecEnv: the Environment driven through its public operations.          *)
(***************************************************************************)
MaxEnvOps == 5

EnvNames == {"x", "y"}

EnvValues == {IntV(1), IntV(2)}

NoOp == [op |-> "none"]

EnvStart ==
  /\ env = EnvironmentNew
  /\ callers = << >>
  /\ envOp = NoOp
  /\ envSteps = 0

EnvStep ==
  /\ envSteps < MaxEnvOps
  /\ envSteps' = envSteps + 1

EnvDeclare(name, value, constant) ==
  /\ EnvStep
  /\ env' = Declare(env, name, value, constant)
  /\ envOp' = [op |-> "declare", name |-> name, value |-> value,
               constant |-> constant, before |-> env]
  /\ UNCHANGED <<callers, accVars, lexVars, parseVars, runVars, lockVars, evalVars>>

\* assign as evaluate_assignment calls it for `name = value`: result is what
\* the assignment expression evaluates to.
EnvAssign(name, value) ==
  LET r == Assign(env, name, value) IN
  /\ EnvStep
  /\ env' = r.env
  /\ envOp' = [op |-> "assign", name |-> name, value |-> value,
               ok |-> r.ok, err |-> r.err, before |-> env,
               result |-> AssignValue(name, value, 1, 1,
                                      [env |-> env, out |-> << >>, fuel |-> 0])]
  /\ UNCHANGED <<callers, accVars, lexVars, parseVars, runVars, lockVars, evalVars>>

\* A callee (function call, catch block, object iteration, include) builds its
\* scope as Environment::new_with_parent(env.clone()) and works on that.
EnvEnter ==
  /\ EnvStep
  /\ callers' = Append(callers, env)
  /\ env' = NewWithParent(env)
  /\ envOp' = [op |-> "enter", before |-> env]
  /\ UNCHANGED <<accVars, lexVars, parseVars, runVars, lockVars, evalVars>>

\* The callee returns: its environment is dropped and the caller's own
\* environment, untouched by the callee, is current again.
EnvLeave ==
  /\ EnvStep
  /\ Len(callers) > 0
  /\ env' = callers[Len(callers)]
  /\ callers' = SubSeq(callers, 1, Len(callers) - 1)
  /\ envOp' = [op |-> "leave", before |-> env]
  /\ UNCHANGED <<accVars, lexVars, parseVars, runVars, lockVars, evalVars>>

NextEnv ==
  \/ \E n \in EnvNames, v \in EnvValues, c \in BOOLEAN : EnvDeclare(n, v, c)
  \/ \E n \in EnvNames, v \in EnvValues : EnvAssign(n, v)
  \/ EnvEnter
  \/ EnvLeave

\* The threads that call into the accumulator.
Threads == {1, 2}

Returned == [pc |-> "returned"]

\* no thread is in a call and both Mutexes are free
LocksIdle ==
  /\ thread = [t \in Threads |-> Returned]
  /\ mutex = [ERROR_SET |-> 0, ERROR_LIST |-> 0]

RunIdle ==
  /\ current_file = None
  /\ frame = NoOp
  /\ LocksIdle

ParseIdle ==
  /\ current = 0
  /\ program = [imports |-> << >>, content |-> << >>]
  /\ parseOp = NoOp

LexIdle ==
  /\ src = << >>
  /\ lexIndex = 0
  /\ lexLine = 1
  /\ lexColumn = 1
  /\ tokens = << >>
  /\ lexPhase = "idle"
  /\ lexSkipped = 0
  /\ ParseIdle
  /\ RunIdle

EvalIdle ==
  /\ overflowChecks = FALSE
  /\ out = << >>
  /\ evalIn = NoOp
  /\ evalOp = NoOp
  /\ evalSteps = 0
  /\ last_value = None
  /\ had_error = FALSE

AccStart ==
  /\ ERROR_SET = {}
  /\ ERROR_LIST = << >>
  /\ accOp = NoOp
  /\ pushedFirst = << >>

InitEnv == EnvStart /\ AccStart /\ LexIdle /\ EvalIdle

SpecEnv == InitEnv /\ [][NextEnv]_vars

(***************************************************************************)
(* SpecAcc: the accumulator driven through push_error and                  *)
(* print_and_clear_errors.                                                 *)
(***************************************************************************)
AccErrors ==
  { ZekkenError(k, m, l, 1, x) :
      k \in {"Runtime", "Type"}, m \in {"m"}, l \in {1, 2}, x \in {None, Some("division by zero")} }

SeqKeys(list) == { ErrorKey(list[i]) : i \in 1..Len(list) }

PushError(error) ==
  LET r == PushErrorInto(ERROR_SET, ERROR_LIST, error) IN
  /\ ERROR_SET' = r.set
  /\ ERROR_LIST' = r.list
  /\ accOp' = [op |-> "push_error", error |-> error]
  /\ pushedFirst' = IF ErrorKey(error) \in SeqKeys(pushedFirst)
                      THEN pushedFirst ELSE Append(pushedFirst, error)
  /\ UNCHANGED <<envVars, lexVars, parseVars, runVars, lockVars, evalVars>>

\* print_and_clear_errors: a non-empty list is printed, then list and set are
\* cleared; an empty list leaves both as they are.
PrintAndClearErrors ==
  /\ IF ERROR_LIST # << >>
       THEN /\ ERROR_LIST' = << >>
            /\ ERROR_SET' = {}
            /\ accOp' = [op |-> "print_and_clear_errors", printed |-> ERROR_LIST, ret |-> TRUE]
       ELSE /\ UNCHANGED <<ERROR_LIST, ERROR_SET>>
            /\ accOp' = [op |-> "print_and_clear_errors", printed |-> << >>, ret |-> FALSE]
  /\ pushedFirst' = << >>
  /\ UNCHANGED <<envVars, lexVars, parseVars, runVars, lockVars, evalVars>>

NextAcc ==
  \/ \E e \in AccErrors : PushError(e)
  \/ PrintAndClearErrors

InitAcc == EnvStart /\ AccStart /\ LexIdle /\ EvalIdle

SpecAcc == InitAcc /\ [][NextAcc]_vars

(***************************************************************************)
(* SpecAccWasm: the accumulator of the wasm32 build, whose library also    *)
(* exports clear_errors (lib.rs:102-107).                                  *)
(***************************************************************************)
\* clear_errors: ERROR_LIST.lock().unwrap().clear();
ClearErrors ==
  /\ ERROR_LIST' = << >>
  /\ ERROR_SET' = ERROR_SET
  /\ accOp' = [op |-> "clear_errors", cleared |-> ERROR_LIST]
  /\ pushedFirst' = << >>
  /\ UNCHANGED <<envVars, lexVars, parseVars, runVars, lockVars, evalVars>>

NextAccWasm ==
  \/ \E e \in AccErrors : PushError(e)
  \/ PrintAndClearErrors
  \/ ClearErrors

SpecAccWasm == InitAcc /\ [][NextAccWasm]_vars

(***************************************************************************)
(* SpecLex: tokenize on every source text of at most MaxSrcLen characters. *)
(***************************************************************************)
MaxSrcLen == 3

Sources == UNION { [1..n -> LexChars] : n \in 0..MaxSrcLen }

LexStart(source) ==
  /\ src = source
  /\ lexIndex = 0
  /\ lexLine = 1
  /\ lexColumn = 1
  /\ tokens = << >>
  /\ lexPhase = "scan"
  /\ lexSkipped = 0

InitLex ==
  EnvStart /\ AccStart /\ EvalIdle /\ ParseIdle /\ RunIdle /\ \E source \in Sources : LexStart(source)

\* One iteration of `while index < len`.
ScanStep ==
  /\ lexPhase = "scan"
  /\ lexIndex < Len(src)
  /\ LET c == CharAt(src, lexIndex)
         r == TokenizeChar(src, lexIndex, lexLine, lexColumn)
     IN
     IF c = "\n"
       THEN /\ lexLine' = lexLine + 1
            /\ lexColumn' = 1
            /\ lexIndex' = lexIndex + 1
            /\ lexSkipped' = lexSkipped + 1
            /\ UNCHANGED <<tokens, lexPhase>>
     ELSE IF IsWhitespace(c)
       THEN /\ lexIndex' = lexIndex + 1
            /\ lexColumn' = lexColumn + 1
            /\ lexSkipped' = lexSkipped + 1
            /\ UNCHANGED <<tokens, lexLine, lexPhase>>
     ELSE IF r.tag = "Panic"
       THEN /\ lexPhase' = "panic"
            /\ UNCHANGED <<tokens, lexLine, lexColumn, lexIndex, lexSkipped>>
     ELSE IF r.tag = "Some"
       THEN /\ IF CountNewlines(r.token.value) > 0
                 THEN /\ lexLine' = lexLine + CountNewlines(r.token.value)
                      /\ lexColumn' = ByteLen(LastLine(r.token.value)) + 1
                 ELSE /\ lexColumn' = lexColumn + r.consumed
                      /\ UNCHANGED lexLine
            /\ tokens' = Append(tokens, r.token)
            /\ lexIndex' = lexIndex + r.consumed
            /\ UNCHANGED <<lexPhase, lexSkipped>>
       ELSE /\ lexIndex' = lexIndex + 1
            /\ lexColumn' = lexColumn + 1
            /\ UNCHANGED <<tokens, lexLine, lexPhase, lexSkipped>>
  /\ UNCHANGED <<src, envVars, accVars, parseVars, runVars, lockVars, evalVars>>

\* The loop has ended: the EOF token is pushed and tokens is returned.
ScanEOF ==
  /\ lexPhase = "scan"
  /\ ~(lexIndex < Len(src))
  /\ tokens' = Append(tokens, TokenNew(<< >>, "EOF", lexLine, lexColumn))
  /\ lexPhase' = "done"
  /\ UNCHANGED <<src, lexIndex, lexLine, lexColumn, lexSkipped, envVars, accVars,
                 parseVars, runVars, lockVars, evalVars>>

NextLex == ScanStep \/ ScanEOF

SpecLex == InitLex /\ [][NextLex]_vars /\ WF_vars(NextLex)

(***************************************************************************)
(* SpecExpr: evaluate_expression applied to one expression per step, in    *)
(* either build profile.  The operands of the arithmetic range over every  *)
(* integer of the width and over a few floats; the object literals are the *)
(* trees parse_object_properties builds for at most MaxProps properties.   *)
(***************************************************************************)
MaxProps == 2

MaxFuel == 3

ArithOperators == {"+", "-", "*", "/", "%"}

CompoundOperators == {"+=", "-=", "*=", "/=", "%="}

Ints == MinInt..MaxInt

\* 0.0, 0.5, 1.0 and -1.5 as num/den
Floats == {<<0, 1>>, <<1, 2>>, <<1, 1>>, <<-3, 2>>}

IntOperands == { IntLit(n, Location(1, 1)) : n \in Ints }

FloatOperands == { FloatLit(f[1], f[2], Location(1, 1)) : f \in Floats }

PropertyKeys == {"a", "b", "__keys__"}

PropertyLists ==
  UNION { [1..n -> { Property(key, IntLit(i, Location(1, 1)), Location(1, 1)) :
                       key \in PropertyKeys, i \in 1..2 }] : n \in 0..MaxProps }

ObjectMethods == {"keys", "values", "entries"}

\* the state an evaluation starts in
StartState(e) == [env |-> e, out |-> << >>, fuel |-> MaxFuel]

\* left op right on two literals of one numeric type
ArithmeticInputs ==
  { [op |-> "binary", expr |-> BinaryExpr(p[1], operator, p[2], Location(1, 3)),
     env |-> EnvironmentNew] :
      operator \in ArithOperators,
      p \in (IntOperands \X IntOperands) \cup (FloatOperands \X FloatOperands) }

\* let x = left; evaluated, the Environment x op= right is evaluated on
Declared(left) ==
  EvalStmt(VarDecl(FALSE, "x", IF left.t = "IntLit" THEN "Int" ELSE "Float",
                   Some(Expression(left)), Location(1, 1)),
           StartState(EnvironmentNew)).st.env

\* x op= right, x a variable that holds the value of the literal `left`
CompoundInputs ==
  { [op |-> "compound",
     expr |-> AssignExpr(Identifier("x", Location(2, 1)), operator, p[2], Location(2, 3)),
     env |-> Declared(p[1])] :
      operator \in CompoundOperators,
      p \in (IntOperands \X IntOperands) \cup (FloatOperands \X FloatOperands) }

\* { k1: e1, ..., kn: en }.method()
MethodInputs ==
  { [op |-> "method", props |-> props,
     expr |-> CallExpr(MemberExpr(ObjectLit(ParseObjectProperties(props), Location(1, 1)),
                                  Identifier(method, Location(1, 9)), Location(1, 8)),
                       << >>, Location(1, 8)),
     env |-> EnvironmentNew] :
      props \in PropertyLists, method \in ObjectMethods }

\* The operands of == and !=: one or two expressions of each runtime type.
EqualityOperands ==
  { IntLit(1, Location(1, 1)), IntLit(2, Location(1, 1)),
    FloatLit(1, 1, Location(1, 1)), FloatLit(1, 2, Location(1, 1)),
    StringLit("1", Location(1, 1)), BoolLit(TRUE, Location(1, 1)),
    ArrayLit(<<IntLit(1, Location(1, 2))>>, Location(1, 1)),
    ObjectLit(ParseObjectProperties(<< >>), Location(1, 1)),
    Identifier("println", Location(1, 1)) }

\* left == right and left != right
EqualityInputs ==
  { [op |-> "equality", expr |-> BinaryExpr(left, operator, right, Location(1, 3)),
     env |-> EnvironmentNew] :
      operator \in {"==", "!="}, left \in EqualityOperands, right \in EqualityOperands }

\* The arrays `a` holds, and the Environments it is bound in: in the global
\* scope, in the parent of the current scope, in the current scope over
\* another variable a of the parent, and in the current scope over a
\* constant a of the parent.
ArrayValues == { << >>, <<IntV(1)>>, <<IntV(1), IntV(2)>> }

ArrayScopes(arr) ==
  LET other == ArrayV(<<IntV(7)>>) IN
  { [scope |-> "global", env |-> Declare(EnvironmentNew, "a", ArrayV(arr), FALSE)],
    [scope |-> "parent",
     env |-> NewWithParent(Declare(EnvironmentNew, "a", ArrayV(arr), FALSE))],
    [scope |-> "shadowing",
     env |-> Declare(NewWithParent(Declare(EnvironmentNew, "a", other, FALSE)),
                     "a", ArrayV(arr), FALSE)],
    [scope |-> "over-constant",
     env |-> Declare(NewWithParent(Declare(EnvironmentNew, "a", other, TRUE)),
                     "a", ArrayV(arr), FALSE)] }

\* a.push => |x| and a.pop => | |
ArrayInputs ==
  LET call(method, args) ==
        CallExpr(MemberExpr(Identifier("a", Location(1, 1)),
                            Identifier(method, Location(1, 3)), Location(1, 2)),
                 args, Location(1, 2))
      calls == { call("push", <<x>>) :
                   x \in { IntLit(3, Location(1, 12)), StringLit("s", Location(1, 12)),
                           Identifier("a", Location(1, 12)) } }
               \cup { call("pop", << >>) }
  IN { [op |-> "array", scope |-> s.scope, expr |-> c, env |-> s.env] :
         c \in calls, s \in UNION { ArrayScopes(arr) : arr \in ArrayValues } }

\* the receivers of a method call that are no bare identifier: an array
\* literal, a member expression and the result of a call
Receivers ==
  { [form |-> "literal", expr |-> ArrayLit(<< >>, Location(1, 1))],
    [form |-> "literal",
     expr |-> ArrayLit(<<IntLit(1, Location(1, 2)), IntLit(2, Location(1, 5))>>,
                       Location(1, 1))],
    [form |-> "member",
     expr |-> MemberExpr(Identifier("x", Location(1, 1)), Identifier("k", Location(1, 3)),
                         Location(1, 2))],
    [form |-> "call",
     expr |-> CallExpr(Identifier("f", Location(1, 1)), << >>, Location(1, 1))] }

\* a holds [9], x holds the object {k: [1, 2]} and f is
\* func f | | { return [1, 2]; }
ReceiverEnv ==
  LET pair == <<IntLit(1, Location(1, 20)), IntLit(2, Location(1, 23))>>
      body == <<Statement(ReturnStmt(Some(Expression(ArrayLit(pair, Location(1, 19)))),
                                     Location(1, 12)))>>
  IN Declare(Declare(Declare(EnvironmentNew, "a", ArrayV(<<IntV(9)>>), FALSE),
                     "x", ObjectV(MapInsert(EmptyMap, "k", ArrayV(<<IntV(1), IntV(2)>>))),
                     FALSE),
             "f", FunctionV(<< >>, body), FALSE)

\* <receiver>.push => |3| and <receiver>.pop => | |
ReceiverInputs ==
  { [op |-> "receiver", form |-> r.form, method |-> c.method,
     expr |-> CallExpr(MemberExpr(r.expr, Identifier(c.method, Location(1, 30)),
                                  Location(1, 29)),
                       c.args, Location(1, 29)),
     env |-> ReceiverEnv] :
      r \in Receivers,
      c \in { [method |-> "push", args |-> <<IntLit(3, Location(1, 40))>>],
              [method |-> "pop", args |-> << >>] } }

InitExpr ==
  /\ callers = << >> /\ envOp = NoOp /\ envSteps = 0
  /\ AccStart /\ LexIdle
  /\ overflowChecks \in BOOLEAN
  /\ evalIn \in ArithmeticInputs \cup CompoundInputs \cup MethodInputs \cup EqualityInputs
                 \cup ArrayInputs \cup ReceiverInputs
  /\ env = evalIn.env
  /\ out = << >>
  /\ evalOp = NoOp
  /\ evalSteps = 0
  /\ last_value = None
  /\ had_error = FALSE

\* evaluate_expression(expr, env), once
Evaluate ==
  LET r == EvalExpr(evalIn.expr, StartState(env)) IN
  /\ evalOp = NoOp
  /\ evalOp' = [op |-> evalIn.op, before |-> env, result |-> r]
  /\ env' = r.st.env
  /\ out' = r.st.out
  /\ UNCHANGED <<callers, envOp, envSteps, accVars, lexVars, parseVars, runVars, lockVars, overflowChecks, evalIn,
                 evalSteps, last_value, had_error>>

EvalArithmetic == evalIn.op = "binary" /\ Evaluate

EvalCompound == evalIn.op = "compound" /\ Evaluate

EvalObjectMethod == evalIn.op = "method" /\ Evaluate

EvalEquality == evalIn.op = "equality" /\ Evaluate

EvalArrayMethod == evalIn.op = "array" /\ Evaluate

EvalReceiverMethod == evalIn.op = "receiver" /\ Evaluate

NextExpr ==
  \/ EvalArithmetic \/ EvalCompound \/ EvalObjectMethod \/ EvalEquality \/ EvalArrayMethod
  \/ EvalReceiverMethod

SpecExpr == InitExpr /\ [][NextExpr]_vars

(***************************************************************************)
(* SpecProg: the execution loop of evaluate_program (statement.rs:346-379) *)
(* on a drawn program, one item of program.content per step.  The programs *)
(* drawn have no imports, their top-level items are ones the declaration   *)
(* pre-pass leaves alone or whose effect on temp_env is given with the     *)
(* program (`env`), and every identifier the lint pass looks up is bound   *)
(* there; so the loop starts in the Environment `env` with an empty        *)
(* accumulator.                                                            *)
(***************************************************************************)
\* @println => |expr| on source line `line`
PrintLn(expr, line) ==
  Expression(CallExpr(Identifier("println", Location(line, 2)), <<expr>>,
                      Location(line, 2)))

\* let int y = 1;
LetY(line) ==
  Statement(VarDecl(FALSE, "y", "Int", Some(Expression(IntLit(1, Location(line, 13)))),
                    Location(line, 1)))

\* e.<field>, the member expression of a catch block
ErrorField(field, line) ==
  MemberExpr(Identifier("e", Location(line, 14)), Identifier(field, Location(line, 16)),
             Location(line, 15))

DivByZero(line) ==
  BinaryExpr(IntLit(1, Location(line, 14)), "/", IntLit(0, Location(line, 18)),
             Location(line, 16))

ModByZero(line) ==
  BinaryExpr(IntLit(7, Location(line, 14)), "%", IntLit(0, Location(line, 18)),
             Location(line, 16))

\* Block statements that declare y in their body, each followed by
\* @println => |y| in the enclosing scope.
ScopePrograms ==
  LET ifBody == Statement(IfStmt(BoolLit(TRUE, Location(1, 4)), <<LetY(1)>>, None,
                                 Location(1, 1)))
      elseBody == Statement(IfStmt(BoolLit(FALSE, Location(1, 4)), << >>,
                                   Some(<<Statement(BlockStmt(<<LetY(1)>>, Location(1, 9)))>>),
                                   Location(1, 1)))
      letC(b) == Statement(VarDecl(FALSE, "c", "Bool",
                                   Some(Expression(BoolLit(b, Location(1, 14)))),
                                   Location(1, 1)))
      declC == Statement(IfStmt(BoolLit(TRUE, Location(1, 4)), <<letC(TRUE)>>, None,
                                Location(1, 1)))
      whileBody == Statement(WhileStmt(
                     BinaryExpr(Identifier("c", Location(1, 7)), "==",
                                BoolLit(TRUE, Location(1, 12)), Location(1, 9)),
                     <<letC(FALSE), LetY(1)>>, Location(1, 1)))
      forArray == Statement(IfStmt(BoolLit(TRUE, Location(1, 4)),
                    <<Statement(ForStmt(
                        Some(VarDecl(FALSE, "x", "Any",
                                     Some(Expression(ArrayLit(<<IntLit(1, Location(1, 12))>>,
                                                              Location(1, 11)))),
                                     Location(1, 1))),
                        <<LetY(1)>>, Location(1, 1)))>>, None, Location(1, 1)))
      forObject == Statement(IfStmt(BoolLit(TRUE, Location(1, 4)),
                     <<Statement(ForStmt(
                         Some(VarDecl(FALSE, "k, v", "Any",
                                      Some(Expression(ObjectLit(ParseObjectProperties(
                                        <<Property("a", IntLit(1, Location(1, 20)),
                                                   Location(1, 17))>>), Location(1, 16)))),
                                      Location(1, 1))),
                         <<LetY(1)>>, Location(1, 1)))>>, None, Location(1, 1)))
      tryBody == Statement(TryCatchStmt(<<LetY(1)>>, Some(<< >>), Location(1, 1)))
      tryFails == Statement(TryCatchStmt(<<LetY(1), PrintLn(DivByZero(1), 1)>>,
                                         Some(<< >>), Location(1, 1)))
      catchBody == Statement(TryCatchStmt(<<PrintLn(DivByZero(1), 1)>>,
                                          Some(<<LetY(1)>>), Location(1, 1)))
      useY == PrintLn(Identifier("y", Location(3, 14)), 3)
  IN { [op |-> "program", family |-> "scope", block |-> b[1], content |-> b[2] \o <<useY>>,
        env |-> EnvironmentNew] :
         b \in { <<"if", <<ifBody>> >>, <<"else", <<elseBody>> >>,
                 <<"while", <<declC, whileBody>> >>, <<"for-array", <<forArray>> >>,
                 <<"for-object", <<forObject>> >>, <<"try", <<tryBody>> >>,
                 <<"try-fails", <<tryFails>> >>, <<"catch", <<catchBody>> >> } }

\* The try blocks drawn: what they raise, if anything.
TryBlocks ==
  { <<PrintLn(DivByZero(1), 1)>>,
    <<PrintLn(ModByZero(1), 1)>>,
    <<PrintLn(Identifier("q", Location(1, 14)), 1)>>,
    <<PrintLn(IntLit(1, Location(1, 14)), 1)>>,
    <<PrintLn(IntLit(1, Location(1, 14)), 1), LetY(1), PrintLn(DivByZero(1), 1)>>,
    <<LetY(1), Expression(IntLit(3, Location(1, 20)))>> }

\* The text the catch block prints before anything else, so that its
\* execution shows in `out`.
CatchMarker == "caught"

\* The catch blocks drawn: each prints the marker first; one prints the four
\* fields of e and ends in an expression, one ends in a declaration, one
\* raises an error of its own, one only prints.
CatchBlocks ==
  LET marker == PrintLn(StringLit(CatchMarker, Location(2, 14)), 2)
      field(f) == PrintLn(ErrorField(f, 2), 2)
  IN { [catch |-> "fields",
        body |-> <<marker, field("kind"), field("message"), field("line"),
                   field("column"), Expression(IntLit(5, Location(2, 40)))>>],
       [catch |-> "declares", body |-> <<marker, LetY(2)>>],
       [catch |-> "raises",
        body |-> <<marker, PrintLn(Identifier("q", Location(2, 14)), 2)>>],
       [catch |-> "prints", body |-> <<marker>>] }

\* try { ... } catch |e| { ... }
TryPrograms ==
  { [op |-> "program", family |-> "try", block |-> c.catch,
     content |-> <<Statement(TryCatchStmt(t, Some(c.body), Location(1, 1)))>>,
     env |-> EnvironmentNew] : t \in TryBlocks, c \in CatchBlocks }

\* The text a function body prints after its return statement.
AfterReturn == IntLit(2, Location(1, 30))

\* The function bodies drawn: each executes `return 1` when called, and
\* prints AfterReturn only from a statement that follows the return.
ReturnBodies ==
  LET ret == Statement(ReturnStmt(Some(Expression(IntLit(1, Location(1, 20)))),
                                  Location(1, 12)))
      later == PrintLn(AfterReturn, 1)
      before == PrintLn(IntLit(3, Location(1, 14)), 1)
      nested(body) == Statement(IfStmt(BoolLit(TRUE, Location(1, 14)), body, None,
                                       Location(1, 12)))
      looping(body) == Statement(WhileStmt(BoolLit(TRUE, Location(1, 14)), body,
                                           Location(1, 12)))
  IN { <<ret>>, <<before, ret>>, <<ret, later>>, <<nested(<<ret>>), later>>,
       <<nested(<<ret, later>>)>>, <<looping(<<ret>>)>> }

\* func f() { ... }  f();  with temp_env as the pre-pass leaves it: f is
\* declared, and the bodies declare nothing.
ReturnPrograms ==
  { [op |-> "program", family |-> "return", block |-> "func",
     content |-> <<Statement(FuncDecl("f", << >>, body, Location(1, 1))),
                   Expression(CallExpr(Identifier("f", Location(2, 1)), << >>,
                                       Location(2, 1)))>>,
     env |-> Declare(EnvironmentNew, "f", FunctionV(<< >>, body), FALSE)] :
       body \in ReturnBodies }

\* The text the body of f prints, so that its execution shows in `out`.
BodyMarker == "body"

\* func f(int a) { @println => |"body"|; }  f(arg);  with temp_env as the
\* pre-pass leaves it: f is declared, and so is the parameter a, with the
\* dummy value of its type.
ArgPrograms ==
  LET body == <<PrintLn(StringLit(BodyMarker, Location(1, 30)), 1)>>
      params == <<Param("a", "Int")>>
  IN { [op |-> "program", family |-> "args", block |-> "func",
        content |-> <<Statement(FuncDecl("f", params, body, Location(1, 1))),
                      Expression(CallExpr(Identifier("f", Location(2, 1)), <<arg>>,
                                          Location(2, 1)))>>,
        env |-> Declare(Declare(EnvironmentNew, "f", FunctionV(params, body), FALSE),
                        "a", CreateDummyValue("Int"), FALSE)] :
          arg \in { IntLit(1, Location(2, 3)), StringLit("s", Location(2, 3)),
                    BoolLit(TRUE, Location(2, 3)), FloatLit(1, 2, Location(2, 3)) } }

\* The top-level items drawn for line l: two that fail (a division by zero,
\* an unbound name), three that succeed (a print, an expression with a
\* value, a statement whose declaration the pre-pass does not see).
ItemsAt(l) ==
  { PrintLn(DivByZero(l), l),
    PrintLn(Identifier("q", Location(l, 14)), l),
    PrintLn(IntLit(l, Location(l, 14)), l),
    Expression(IntLit(5, Location(l, 1))),
    Statement(IfStmt(BoolLit(TRUE, Location(l, 4)), <<LetY(l)>>, None, Location(l, 1))) }

\* Three top-level items, one per line, in every combination of failing and
\* succeeding ones.
ContinuePrograms ==
  { [op |-> "program", family |-> "continue", block |-> "items",
     content |-> <<a, b, c>>, env |-> EnvironmentNew] :
       a \in ItemsAt(1), b \in ItemsAt(2), c \in ItemsAt(3) }

\* The first content of the function bodies drawn: an expression and three
\* statements that divide by zero, and an expression that does not.
FirstContents ==
  { Expression(DivByZero(1)),
    Statement(VarDecl(FALSE, "y", "Int", Some(Expression(DivByZero(1))), Location(1, 12))),
    Statement(ReturnStmt(Some(Expression(DivByZero(1))), Location(1, 12))),
    Statement(IfStmt(BoolLit(TRUE, Location(1, 14)), <<Expression(DivByZero(1))>>, None,
                     Location(1, 12))),
    Expression(IntLit(1, Location(1, 12))) }

\* func f() { <first>  @println => |"body"| }  f();  with temp_env as the
\* pre-pass leaves it: f is declared, and so is y when the body declares it.
FailingPrograms ==
  { [op |-> "program", family |-> "failing", block |-> "func",
     content |-> <<Statement(FuncDecl("f", << >>, <<first, later>>, Location(1, 1))),
                   Expression(CallExpr(Identifier("f", Location(2, 1)), << >>,
                                       Location(2, 1)))>>,
     env |-> IF first.c = "Statement" /\ first.stmt.t = "VarDecl"
               THEN Declare(Declare(EnvironmentNew, "f",
                                    FunctionV(<< >>, <<first, later>>), FALSE),
                            "y", CreateDummyValue("Int"), FALSE)
               ELSE Declare(EnvironmentNew, "f", FunctionV(<< >>, <<first, later>>),
                            FALSE)] :
       first \in FirstContents,
       later \in {PrintLn(StringLit(BodyMarker, Location(1, 30)), 1)} }

Programs ==
  ScopePrograms \cup TryPrograms \cup ReturnPrograms \cup ArgPrograms \cup ContinuePrograms
    \cup FailingPrograms

InitProg ==
  /\ callers = << >> /\ envOp = NoOp /\ envSteps = 0
  /\ AccStart /\ LexIdle
  /\ overflowChecks \in BOOLEAN
  /\ evalIn \in Programs
  /\ env = evalIn.env
  /\ out = << >>
  /\ evalOp = NoOp
  /\ evalSteps = 0
  /\ last_value = None
  /\ had_error = FALSE

\* the loop is at an item: the last one returned, and there is a next one
AtItem ==
  /\ evalIn.op = "program"
  /\ evalOp.op \in {"none", "statement", "expression"}
  /\ evalOp.op # "none" => evalOp.result.tag \in {"Ok", "Err"}
  /\ evalSteps < Len(evalIn.content)

\* the interpreter state an item starts in
ItemState == [StartState(env) EXCEPT !.out = out]

\* The mutant of ExecItem: an Err leaves the loop as `?` would, without
\* push_error.
ExecItemPropagating(kind, item, r) ==
  /\ evalOp' = [op |-> kind, item |-> item, before |-> env, outBefore |-> out,
                listBefore |-> ERROR_LIST, result |-> r]
  /\ evalSteps' = IF r.tag = "Err" THEN Len(evalIn.content) ELSE evalSteps + 1
  /\ env' = r.st.env
  /\ out' = r.st.out
  /\ last_value' = IF r.tag # "Ok" THEN last_value
                   ELSE IF kind = "statement" THEN r.v ELSE Some(r.v)
  /\ had_error' = (had_error \/ r.tag = "Err")
  /\ UNCHANGED <<callers, envOp, envSteps, accVars, lexVars, parseVars, runVars, lockVars, overflowChecks, evalIn>>

\* One iteration of `for content in &program.content` whose item evaluated
\* to r: Ok(val) is kept in last_value, Err(e) goes through push_error and
\* sets had_error; a panic or a call that does not return ends the run.
ExecItem(kind, item, r) ==
  LET pushed == PushErrorInto(ERROR_SET, ERROR_LIST, r.e) IN
  /\ evalOp' = [op |-> kind, item |-> item, before |-> env, outBefore |-> out,
                listBefore |-> ERROR_LIST, result |-> r]
  /\ evalSteps' = evalSteps + 1
  /\ env' = r.st.env
  /\ out' = r.st.out
  /\ last_value' = IF r.tag # "Ok" THEN last_value
                   ELSE IF kind = "statement" THEN r.v ELSE Some(r.v)
  /\ had_error' = (had_error \/ r.tag = "Err")
  /\ ERROR_SET' = IF r.tag = "Err" THEN pushed.set ELSE ERROR_SET
  /\ ERROR_LIST' = IF r.tag = "Err" THEN pushed.list ELSE ERROR_LIST
  /\ accOp' = IF r.tag = "Err" THEN [op |-> "push_error", error |-> r.e] ELSE accOp
  /\ UNCHANGED <<callers, envOp, envSteps, pushedFirst, lexVars, parseVars, runVars, lockVars, overflowChecks, evalIn>>

ExecStatement ==
  LET item == evalIn.content[evalSteps + 1] IN
  /\ AtItem
  /\ item.c = "Statement"
  /\ ExecItem("statement", item, EvalStmt(item.stmt, ItemState))

ExecExpression ==
  LET item == evalIn.content[evalSteps + 1] IN
  /\ AtItem
  /\ item.c = "Expression"
  /\ ExecItem("expression", item, EvalExpr(item.expr, ItemState))

\* after the loop: Err(internal) if any item failed, Ok(last_value) if none
ProgramReturn ==
  /\ evalIn.op = "program"
  /\ evalOp.op \in {"none", "statement", "expression"}
  /\ evalOp.op # "none" => evalOp.result.tag \in {"Ok", "Err"}
  /\ evalSteps = Len(evalIn.content)
  /\ evalOp' = [op |-> "return",
                result |-> IF had_error
                             THEN [tag |-> "Err",
                                   e |-> InternalError("Multiple runtime errors occurred")]
                             ELSE [tag |-> "Ok", v |-> last_value]]
  /\ UNCHANGED <<envVars, accVars, lexVars, parseVars, runVars, lockVars, overflowChecks, out, evalIn, evalSteps,
                 last_value, had_error>>

NextProg == ExecStatement \/ ExecExpression \/ ProgramReturn

SpecProg == InitProg /\ [][NextProg]_vars

(***************************************************************************)
(* The parser (parser/mod.rs).  A TokenType is named by its Debug text     *)
(* ("Identifier", "DataType(Int)", "AssignOp(Assign)"), a token value is a  *)
(* sequence of characters as in the lexer, and `current` is zero-based as  *)
(* in the code.  A parse function returns Ok with its node and the new     *)
(* `current`, or does not return: std::process::exit(1) after printing an  *)
(* error ("Exit"), or a panic ("Panic").  "Unmodelled" marks the parse     *)
(* functions that are not translated.                                      *)
(***************************************************************************)
POk(v, cur) == [tag |-> "Ok", v |-> v, cur |-> cur]

PExit(error) == [tag |-> "Exit", e |-> error]

PPanic(error) == [tag |-> "Panic", e |-> error]

PUnmodelled == [tag |-> "Unmodelled"]

\* the String of a token value
RECURSIVE TokenText(_)
TokenText(value) == IF value = << >> THEN "" ELSE Head(value) \o TokenText(Tail(value))

\* the names ZekkenError::syntax gives the expected type tokens
PrettyExpected(e) ==
  CASE e = "DataType(Any)" -> "a type (int, float, string, bool, obj, arr, fn)"
    [] e = "DataType(Int)" -> "Int Type (int)"
    [] e = "DataType(Float)" -> "Float Type (float)"
    [] e = "DataType(String)" -> "String Type (string)"
    [] e = "DataType(Bool)" -> "Bool Type (bool)"
    [] e = "DataType(Object)" -> "Object Type (obj)"
    [] e = "DataType(Array)" -> "Array Type (arr)"
    [] e = "DataType(Fn)" -> "Function Type (fn)"
    [] OTHER -> e

\* ZekkenError::syntax: the expected and found lines of the extra text
SyntaxError(msg, line, column, expected, found) ==
  ZekkenError("Syntax", msg, line, column,
              Some("  expected: " \o PrettyExpected(expected) \o "\n"
                     \o "  found:    " \o found \o "\n"))

TokenLocation(token) == Location(token.line, token.column)

ParserAt(toks, cur) == toks[cur + 1]

NotEof(toks, cur) == cur < Len(toks) /\ toks[cur + 1].kind # "EOF"

Consume(toks, cur) == IF NotEof(toks, cur) THEN cur + 1 ELSE cur

\* format!("{:?} ({})", token.kind, token.value), or "End Of File"
FoundText(token) ==
  IF token.kind = "EOF" THEN "End Of File"
  ELSE token.kind \o " (" \o TokenText(token.value) \o ")"

\* The mutant of Expect: a mismatch is answered with the token at hand, which
\* is not consumed.
ExpectLenient(toks, cur, type, err) ==
  IF ParserAt(toks, cur).kind # type THEN POk(ParserAt(toks, cur), cur)
  ELSE POk(ParserAt(toks, cur), Consume(toks, cur))

\* expect: on a mismatch the error is printed to stderr and the process exits
Expect(toks, cur, type, err) ==
  IF ParserAt(toks, cur).kind # type
    THEN PExit(SyntaxError(err, ParserAt(toks, cur).line, ParserAt(toks, cur).column,
                           type, FoundText(ParserAt(toks, cur))))
    ELSE POk(ParserAt(toks, cur), Consume(toks, cur))

\* char::to_digit
DigitValue(c) == CHOOSE d \in 0..9 : Digit(d) = c

\* str::parse::<i64> of a run of digits
RECURSIVE ParseDigits(_, _)
ParseDigits(value, acc) ==
  IF value = << >> THEN acc ELSE ParseDigits(Tail(value), 10 * acc + DigitValue(Head(value)))

AssignOperators ==
  [k \in {"AssignOp(Assign)", "AssignOp(AddAssign)", "AssignOp(SubAssign)",
          "AssignOp(MulAssign)", "AssignOp(DivAssign)", "AssignOp(ModAssign)"} |->
     CASE k = "AssignOp(Assign)" -> "="
       [] k = "AssignOp(AddAssign)" -> "+="
       [] k = "AssignOp(SubAssign)" -> "-="
       [] k = "AssignOp(MulAssign)" -> "*="
       [] k = "AssignOp(DivAssign)" -> "/="
       [] k = "AssignOp(ModAssign)" -> "%="]

\* get_infix_precedence answers Some for these
InfixKinds ==
  { "ArithOp(Add)", "ArithOp(Sub)", "ArithOp(Mul)", "ArithOp(Div)", "ArithOp(Mod)",
    "BinOp(And)", "BinOp(Or)", "BinOp(Eq)", "BinOp(Neq)", "BinOp(Less)",
    "BinOp(Greater)", "BinOp(LessEq)", "BinOp(GreaterEq)" } \cup DOMAIN AssignOperators

DataTypes ==
  [k \in {"DataType(Int)", "DataType(Float)", "DataType(String)", "DataType(Bool)",
          "DataType(Object)", "DataType(Array)", "DataType(Fn)", "DataType(Any)"} |->
     CASE k = "DataType(Int)" -> "Int"
       [] k = "DataType(Float)" -> "Float"
       [] k = "DataType(String)" -> "String"
       [] k = "DataType(Bool)" -> "Bool"
       [] k = "DataType(Object)" -> "Object"
       [] k = "DataType(Array)" -> "Array"
       [] k = "DataType(Fn)" -> "Fn"
       [] k = "DataType(Any)" -> "Any"]

RECURSIVE ParsePrefix(_, _)
RECURSIVE ParseExpression(_, _, _)

\* the primary expressions of parse_prefix
ParsePrimary(toks, cur) ==
  CASE ParserAt(toks, cur).kind = "Identifier" ->
         Try(Expect(toks, cur, "Identifier", "Expected identifier"), LAMBDA t :
           POk(Expression(Identifier(TokenText(t.v.value), TokenLocation(t.v))), t.cur))
    [] ParserAt(toks, cur).kind = "Int" ->
         Try(Expect(toks, cur, "Int", "Expected integer literal"), LAMBDA t :
           POk(Expression(IntLit(ParseDigits(t.v.value, 0), TokenLocation(t.v))), t.cur))
    [] ParserAt(toks, cur).kind = "String" ->
         Try(Expect(toks, cur, "String", "Expected string literal"), LAMBDA t :
           POk(Expression(StringLit(TokenText(t.v.value), TokenLocation(t.v))), t.cur))
    [] ParserAt(toks, cur).kind \in {"Boolean(true)", "Boolean(false)"} ->
         POk(Expression(BoolLit(ParserAt(toks, cur).kind = "Boolean(true)",
                                TokenLocation(ParserAt(toks, cur)))),
             Consume(toks, cur))
    [] ParserAt(toks, cur).kind = "OpenParen" ->
         Try(ParseExpression(toks, Consume(toks, cur), 0), LAMBDA expr :
           Try(Expect(toks, expr.cur, "CloseParen", "Expected ')' after expression"),
               LAMBDA t : POk(expr.v, t.cur)))
    [] ParserAt(toks, cur).kind \in {"Float", "OpenBrace", "OpenBracket"} -> PUnmodelled
    [] OTHER ->
         PPanic(SyntaxError("Unexpected token in expression", ParserAt(toks, cur).line,
                            ParserAt(toks, cur).column, "expression",
                            ParserAt(toks, cur).kind \o " ("
                              \o TokenText(ParserAt(toks, cur).value) \o ")"))

\* what parse_prefix builds for a minus followed by the expression `expr`,
\* with the parser at the token `at` once `expr` is read: 0.0 - expr
UnaryMinus(expr, at) ==
  BinaryExpr(FloatLit(0, 1, TokenLocation(at)), "-", expr, TokenLocation(at))

\* parse_prefix: `@` calls are not translated, nor is what follows a primary
\* expression that is followed by `.`, `[` or `=>`
ParsePrefix(toks, cur) ==
  IF ParserAt(toks, cur).kind = "At" THEN PUnmodelled
  ELSE IF ParserAt(toks, cur).kind = "ArithOp(Sub)"
    THEN Try(ParsePrefix(toks, Consume(toks, cur)), LAMBDA expr :
           POk(Expression(UnaryMinus(expr.v.expr, ParserAt(toks, expr.cur))), expr.cur))
  ELSE Try(ParsePrimary(toks, cur), LAMBDA expr :
         IF ParserAt(toks, expr.cur).kind \in {"Dot", "OpenBracket", "FatArrow"}
           THEN PUnmodelled
           ELSE expr)

\* parse_expression: the assignment branch; member access and infix
\* operators are not translated
ParseExpression(toks, cur, min_prec) ==
  Try(ParsePrefix(toks, cur), LAMBDA left :
    IF ParserAt(toks, left.cur).kind = "Dot" THEN PUnmodelled
    ELSE IF ParserAt(toks, left.cur).kind \in DOMAIN AssignOperators
      THEN Try(ParseExpression(toks, Consume(toks, left.cur), 0), LAMBDA right :
             POk(Expression(AssignExpr(left.v.expr,
                                       AssignOperators[ParserAt(toks, left.cur).kind],
                                       right.v.expr,
                                       TokenLocation(ParserAt(toks, right.cur)))),
                 right.cur))
    ELSE IF ParserAt(toks, left.cur).kind \in InfixKinds THEN PUnmodelled
    ELSE left)

ParseExprStmt(toks, cur) == ParseExpression(toks, cur, 0)

\* the type after the colon: a DataType token, or the failing expect
DeclaredType(toks, cur) ==
  IF ParserAt(toks, cur).kind \in DOMAIN DataTypes
    THEN IF ParserAt(toks, cur).kind = "DataType(Fn)" THEN PUnmodelled
         ELSE POk(DataTypes[ParserAt(toks, cur).kind], Consume(toks, cur))
    ELSE Expect(toks, cur, "DataType(Any)",
                "Expected type (int, float, string, bool, obj, arr, fn) after ':'")

\* the initialiser: a boolean literal, or parse_expr
DeclaredInitialiser(toks, cur) ==
  IF ParserAt(toks, cur).kind \in {"Boolean(true)", "Boolean(false)"}
    THEN POk(Expression(BoolLit(ParserAt(toks, cur).kind = "Boolean(true)",
                                TokenLocation(ParserAt(toks, cur)))),
             Consume(toks, cur))
    ELSE ParseExprStmt(toks, cur)

ParseNormalVarDecl(toks, cur, constant, ident, start_location) ==
  Try(Expect(toks, cur, "Colon", "Expected ':' after variable identifier"), LAMBDA colon :
  Try(DeclaredType(toks, colon.cur), LAMBDA type :
  Try(Expect(toks, type.cur, "AssignOp(Assign)", "Expected '=' after type declaration"),
      LAMBDA eq :
  Try(DeclaredInitialiser(toks, eq.cur), LAMBDA value :
  Try(Expect(toks, value.cur, "Semicolon", "Expected ';' after variable declaration"),
      LAMBDA semi :
    POk(Statement(VarDecl(constant, ident, type.v, Some(value.v), start_location)),
        semi.cur))))))

ParseVarDecl(toks, cur) ==
  Try(Expect(toks, Consume(toks, cur), "Identifier", "Expected variable identifier"),
      LAMBDA ident :
    ParseNormalVarDecl(toks, ident.cur, ParserAt(toks, cur).kind = "Const",
                       TokenText(ident.v.value), TokenLocation(ParserAt(toks, cur))))

ParseStmt(toks, cur) ==
  CASE ParserAt(toks, cur).kind \in {"Let", "Const"} -> ParseVarDecl(toks, cur)
    [] ParserAt(toks, cur).kind \in
         {"SingleLineComment", "MultiLineComment", "Func", "If", "For", "While", "Use",
          "Include", "Export", "Return", "Try"} -> PUnmodelled
    [] OTHER -> ParseExprStmt(toks, cur)

(***************************************************************************)
(* SpecParse: produce_ast on a token vector, one iteration of its loop per *)
(* step.  The vectors drawn are what tokenize returns for a declaration,   *)
(* a parenthesised literal, an assignment, a literal followed by `;` and a *)
(* negated literal, written with one space between tokens, and for every   *)
(* text obtained from one of them by leaving out one token or putting      *)
(* another in its place.                                                   *)
(***************************************************************************)
TokenTexts ==
  [k \in {"Let", "Identifier", "Colon", "DataType(Int)", "AssignOp(Assign)", "Int",
          "Semicolon", "OpenParen", "CloseParen", "ArithOp(Sub)"} |->
     CASE k = "Let" -> <<"l", "e", "t">>
       [] k = "Identifier" -> <<"a">>
       [] k = "Colon" -> <<":">>
       [] k = "DataType(Int)" -> <<"i", "n", "t">>
       [] k = "AssignOp(Assign)" -> <<"=">>
       [] k = "Int" -> <<"1">>
       [] k = "Semicolon" -> <<";">>
       [] k = "OpenParen" -> <<"(">>
       [] k = "CloseParen" -> <<")">>
       [] k = "ArithOp(Sub)" -> <<"-">>]

\* tokenize's result for the kinds from the k-th on, the k-th at `column`
RECURSIVE Tokenized(_, _, _)
Tokenized(kinds, k, column) ==
  IF k > Len(kinds) THEN <<TokenNew(<< >>, "EOF", 1, IF k = 1 THEN 1 ELSE column - 1)>>
  ELSE <<TokenNew(TokenTexts[kinds[k]], kinds[k], 1, column)>>
         \o Tokenized(kinds, k + 1, column + Len(TokenTexts[kinds[k]]) + 1)

WellFormed ==
  { <<"Let", "Identifier", "Colon", "DataType(Int)", "AssignOp(Assign)", "Int",
      "Semicolon">>,
    <<"OpenParen", "Int", "CloseParen">>,
    <<"Identifier", "AssignOp(Assign)", "Int">>,
    <<"Int", "Semicolon">>,
    <<"ArithOp(Sub)", "Int">> }

WithoutToken(kinds, k) == SubSeq(kinds, 1, k - 1) \o SubSeq(kinds, k + 1, Len(kinds))

TokenVectors ==
  { Tokenized(kinds, 1, 1) :
      kinds \in WellFormed
        \cup UNION { { WithoutToken(w, k) : k \in 1..Len(w) } : w \in WellFormed }
        \cup UNION { { [w EXCEPT ![k] = other] : k \in 1..Len(w),
                                                   other \in DOMAIN TokenTexts
                                                             \ {"ArithOp(Sub)"} } :
                     w \in WellFormed } }

InitParse ==
  /\ EnvStart /\ AccStart /\ EvalIdle
  /\ src = << >> /\ lexIndex = 0 /\ lexLine = 1 /\ lexColumn = 1 /\ lexSkipped = 0
  /\ lexPhase = "done"
  /\ tokens \in TokenVectors
  /\ ParseIdle
  /\ RunIdle

\* One iteration of `while self.not_eof()`: the statement at `current` is
\* parsed and pushed to program.content; a parse function that exits or
\* panics ends the process.
ProduceAstStep ==
  LET r == ParseStmt(tokens, current) IN
  /\ lexPhase = "done"
  /\ parseOp.op \in {"none", "parse_stmt"}
  /\ parseOp.op = "parse_stmt" => parseOp.tag = "Ok"
  /\ NotEof(tokens, current)
  /\ parseOp' = [op |-> "parse_stmt", from |-> current, tag |-> r.tag,
                 e |-> IF r.tag \in {"Exit", "Panic"} THEN Some(r.e) ELSE None]
  /\ current' = IF r.tag = "Ok" THEN r.cur ELSE current
  /\ program' = IF r.tag = "Ok" THEN [program EXCEPT !.content = Append(@, r.v)]
                ELSE program
  /\ UNCHANGED <<envVars, accVars, lexVars, evalVars, runVars, lockVars>>

\* the loop has ended: produce_ast returns the Program
ProduceAstReturn ==
  /\ lexPhase = "done"
  /\ parseOp.op \in {"none", "parse_stmt"}
  /\ parseOp.op = "parse_stmt" => parseOp.tag = "Ok"
  /\ ~NotEof(tokens, current)
  /\ parseOp' = [op |-> "return", tag |-> "Ok", e |-> None]
  /\ UNCHANGED <<envVars, accVars, lexVars, evalVars, runVars, lockVars, current, program>>

NextParse == ProduceAstStep \/ ProduceAstReturn

SpecParse == InitParse /\ [][NextParse]_vars

(***************************************************************************)
(* SpecNegate: the text of a negated expression is parsed by produce_ast   *)
(* and the expression it returns is evaluated once, in an Environment      *)
(* where the identifier of the text is unbound or bound to a value.        *)
(***************************************************************************)
\* - 1,  - a,  - - a  and  - ( a )
NegatedTexts ==
  { <<"ArithOp(Sub)", "Int">>,
    <<"ArithOp(Sub)", "Identifier">>,
    <<"ArithOp(Sub)", "ArithOp(Sub)", "Identifier">>,
    <<"ArithOp(Sub)", "OpenParen", "Identifier", "CloseParen">> }

\* what a is bound to
NegatedValues ==
  { IntV(n) : n \in Ints } \cup { FloatV(f[1], f[2]) : f \in Floats }
    \cup { StringV("s"), BoolV(TRUE) }

InitNegate ==
  /\ callers = << >> /\ envOp = NoOp /\ envSteps = 0
  /\ env \in {EnvironmentNew}
               \cup { Declare(EnvironmentNew, "a", v, FALSE) : v \in NegatedValues }
  /\ AccStart
  /\ src = << >> /\ lexIndex = 0 /\ lexLine = 1 /\ lexColumn = 1 /\ lexSkipped = 0
  /\ lexPhase = "done"
  /\ tokens \in { Tokenized(kinds, 1, 1) : kinds \in NegatedTexts }
  /\ ParseIdle
  /\ RunIdle
  /\ overflowChecks \in BOOLEAN
  /\ evalIn = [op |-> "parsed"]
  /\ out = << >>
  /\ evalOp = NoOp
  /\ evalSteps = 0
  /\ last_value = None
  /\ had_error = FALSE

\* evaluate_expression on the one expression of the Program produce_ast
\* returned
Parsed(expr, r) ==
  /\ evalOp' = [op |-> "parsed", expr |-> expr, before |-> env, result |-> r]
  /\ env' = r.st.env
  /\ out' = r.st.out
  /\ UNCHANGED <<callers, envOp, envSteps, accVars, lexVars, parseVars, runVars, lockVars,
                 overflowChecks, evalIn, evalSteps, last_value, had_error>>

EvaluateParsed ==
  /\ evalIn.op = "parsed"
  /\ parseOp.op = "return"
  /\ evalOp = NoOp
  /\ Len(program.content) = 1
  /\ program.content[1].c = "Expression"
  /\ Parsed(program.content[1].expr, EvalExpr(program.content[1].expr, StartState(env)))

NextNegate == ProduceAstStep \/ ProduceAstReturn \/ EvaluateParsed

SpecNegate == InitNegate /\ [][NextNegate]_vars

(***************************************************************************)
(* SpecRun: one call of evaluate_program on the Program produce_ast        *)
(* returns for a source, phase by phase: the first loop over the imports   *)
(* (on temp_env), the declaration pre-pass, the lint loop, the second loop *)
(* over the imports (on env) and the execution loop, one import or one     *)
(* item per step.  The process starts with ZEKKEN_CURRENT_FILE unset or    *)
(* set by its environment.  A source is given as the statements parse_stmt *)
(* returns for it, in the order of the text.                               *)
(***************************************************************************)
ProduceAstInTextOrder(source) == ProgramNode(<< >>, source)

\* produce_ast: a statement that starts with `use` or `include` goes to
\* program.imports, every other statement or expression to program.content
ProduceAst(source) ==
  ProgramNode(SelectSeq(source, LAMBDA c : c.c = "Statement" /\ c.stmt.t \in {"Use", "Include"}),
              SelectSeq(source, LAMBDA c : ~(c.c = "Statement" /\ c.stmt.t \in {"Use", "Include"})))

\* the interpreter state a phase of the call works on, with Environment e
RunState(e) ==
  [env |-> e, out |-> out, fuel |-> MaxFuel, file |-> current_file,
   set |-> ERROR_SET, list |-> ERROR_LIST, files |-> evalIn.files]

\* what a phase that left the state `st` leaves outside the Environments
Committed(st) ==
  /\ out' = st.out
  /\ current_file' = st.file
  /\ ERROR_SET' = st.set
  /\ ERROR_LIST' = st.list

\* the names bound in some scope of the chain e
NamesOf(e) ==
  UNION {(DOMAIN e[d].variables) \cup (DOMAIN e[d].constants) : d \in 1..Len(e)}

\* history: the names whose binding an import or item that turned the
\* Environment `before` into `after` has stored, a top-level declaration
\* that succeeded counting for its name whatever value it stored
StoredBy(item, ok, before, after) ==
  {n \in NamesOf(before) \cup NamesOf(after) : Lookup(before, n) # Lookup(after, n)}
    \cup (IF ok /\ item.c = "Statement" /\ item.stmt.t \in {"VarDecl", "FuncDecl"}
           THEN {item.stmt.ident} ELSE {})

\* the frame of a call that has returned, or that never will
Left(r) == [frame EXCEPT !.phase = IF r.tag \in {"Ok", "Err"} THEN "returned" ELSE "ended"]

\* the source is parsed and evaluate_program is entered: temp_env = env.clone()
RunProduceAst ==
  /\ evalIn.op = "run"
  /\ frame.phase = "source"
  /\ frame' = [phase |-> "imports", prog |-> ProduceAst(evalIn.source), k |-> 1,
               temp_env |-> env, errors |-> << >>, imported |-> 0, reimported |-> 0,
               stored |-> {}]
  /\ evalOp' = [op |-> "produce_ast"]
  /\ UNCHANGED <<envVars, accVars, lexVars, parseVars, lockVars, overflowChecks, out, evalIn,
                 evalSteps, last_value, had_error, current_file>>

\* one iteration of the first loop over program.imports, which left r
Imported(import, r) ==
  /\ evalOp' = [op |-> "import", item |-> import, before |-> RunState(frame.temp_env),
                result |-> r]
  /\ frame' = IF r.tag = "Ok"
                THEN [frame EXCEPT !.k = @ + 1, !.temp_env = r.st.env, !.errors = r.v,
                                   !.imported = @ + 1,
                                   !.stored = @ \cup StoredBy(Statement(import), FALSE,
                                                              frame.temp_env, r.st.env)]
                ELSE Left(r)
  /\ Committed(r.st)
  /\ UNCHANGED <<envVars, accOp, pushedFirst, lexVars, parseVars, lockVars, overflowChecks, evalIn,
                 evalSteps, last_value, had_error>>

RunImport ==
  /\ frame.phase = "imports"
  /\ frame.k <= Len(frame.prog.imports)
  /\ Imported(frame.prog.imports[frame.k].stmt,
              ImportOne(frame.prog.imports[frame.k].stmt, RunState(frame.temp_env),
                        frame.errors))

\* after the first loop: with errors collected they are pushed and the call
\* returns Err; without, the two loops of the pre-pass run on temp_env
Scoped(failed, r) ==
  /\ evalOp' = [op |-> IF failed THEN "return" ELSE "pre-pass",
                before |-> RunState(frame.temp_env), result |-> r]
  /\ frame' = IF ~failed /\ r.tag = "Ok"
                THEN [frame EXCEPT !.phase = "lint", !.temp_env = r.st.env]
                ELSE Left(r)
  /\ Committed(r.st)
  /\ UNCHANGED <<envVars, accOp, pushedFirst, lexVars, parseVars, lockVars, overflowChecks, evalIn,
                 evalSteps, last_value, had_error>>

RunPrePass ==
  /\ frame.phase = "imports"
  /\ frame.k > Len(frame.prog.imports)
  /\ Scoped(frame.errors # << >>,
            IF frame.errors # << >>
              THEN RErr(InternalError("Import errors found"),
                        PushAll(frame.errors, 1, RunState(frame.temp_env)))
              ELSE PrePass(frame.prog.content, RunState(frame.temp_env)))

LintedAfterSwap(lint_errors, failed, pushed) ==
  /\ evalOp' = [op |-> IF failed THEN "return" ELSE "lint", before |-> RunState(env),
                lint_errors |-> lint_errors,
                result |-> IF failed
                             THEN RErr(InternalError("Linting errors found"), pushed)
                             ELSE ROk(None, RunState(frame.temp_env))]
  /\ frame' = IF failed THEN [frame EXCEPT !.phase = "returned"]
              ELSE [frame EXCEPT !.phase = "reimports", !.k = 1]
  /\ env' = frame.temp_env
  /\ Committed(pushed)
  /\ UNCHANGED <<callers, envOp, envSteps, accOp, pushedFirst, lexVars, parseVars, lockVars,
                 overflowChecks, evalIn, evalSteps, last_value, had_error>>

\* the lint loop: with errors they are pushed and the call returns Err;
\* without, *env = temp_env
Linted(lint_errors, failed, pushed) ==
  /\ evalOp' = [op |-> IF failed THEN "return" ELSE "lint", before |-> RunState(env),
                lint_errors |-> lint_errors,
                result |-> IF failed
                             THEN RErr(InternalError("Linting errors found"), pushed)
                             ELSE ROk(None, RunState(frame.temp_env))]
  /\ frame' = IF failed THEN [frame EXCEPT !.phase = "returned"]
              ELSE [frame EXCEPT !.phase = "reimports", !.k = 1]
  /\ env' = IF failed THEN env ELSE frame.temp_env
  /\ Committed(pushed)
  /\ UNCHANGED <<callers, envOp, envSteps, accOp, pushedFirst, lexVars, parseVars, lockVars,
                 overflowChecks, evalIn, evalSteps, last_value, had_error>>

RunLint ==
  /\ frame.phase = "lint"
  /\ Linted(LintPass(frame.prog.content, 1, frame.temp_env),
            LintPass(frame.prog.content, 1, frame.temp_env) # << >>,
            PushAll(LintPass(frame.prog.content, 1, frame.temp_env), 1, RunState(env)))

\* one iteration of the second loop over program.imports: an error returns
ImportedAgain(import, r) ==
  /\ evalOp' = [op |-> IF r.tag = "Err" THEN "return" ELSE "reimport", item |-> import,
                before |-> RunState(env), result |-> r]
  /\ frame' = IF r.tag = "Ok"
                THEN [frame EXCEPT !.k = @ + 1, !.reimported = @ + 1,
                                   !.stored = @ \cup StoredBy(Statement(import), FALSE,
                                                              env, r.st.env)]
                ELSE Left(r)
  /\ env' = r.st.env
  /\ Committed(r.st)
  /\ UNCHANGED <<callers, envOp, envSteps, accOp, pushedFirst, lexVars, parseVars, lockVars,
                 overflowChecks, evalIn, evalSteps, last_value, had_error>>

RunImportAgain ==
  /\ frame.phase = "reimports"
  /\ frame.k <= Len(frame.prog.imports)
  /\ ImportedAgain(frame.prog.imports[frame.k].stmt,
                   ImportAgain(frame.prog.imports[frame.k].stmt, RunState(env)))

\* one iteration of the execution loop, which left r
Executed(item, r) ==
  /\ evalOp' = [op |-> "item", item |-> item, before |-> RunState(env), result |-> r]
  /\ evalSteps' = evalSteps + 1
  /\ frame' = IF r.tag \in {"Ok", "Err"}
                THEN [frame EXCEPT !.stored = @ \cup StoredBy(item, r.tag = "Ok", env,
                                                              r.st.env)]
                ELSE Left(r)
  /\ env' = r.st.env
  /\ last_value' = IF r.tag = "Ok" THEN r.v ELSE last_value
  /\ had_error' = (had_error \/ r.tag = "Err")
  /\ Committed(IF r.tag = "Err" THEN PushErrorIn(r.st, r.e) ELSE r.st)
  /\ UNCHANGED <<callers, envOp, envSteps, accOp, pushedFirst, lexVars, parseVars, lockVars,
                 overflowChecks, evalIn>>

RunItem ==
  /\ frame.phase = "reimports"
  /\ frame.k > Len(frame.prog.imports)
  /\ evalSteps < Len(frame.prog.content)
  /\ Executed(frame.prog.content[evalSteps + 1],
              ItemResult(frame.prog.content[evalSteps + 1], RunState(env)))

\* after the execution loop
RunReturn ==
  /\ frame.phase = "reimports"
  /\ frame.k > Len(frame.prog.imports)
  /\ evalSteps = Len(frame.prog.content)
  /\ evalOp' = [op |-> "return", before |-> RunState(env),
                result |-> IF had_error
                             THEN RErr(InternalError("Multiple runtime errors occurred"),
                                       RunState(env))
                             ELSE ROk(last_value, RunState(env))]
  /\ frame' = [frame EXCEPT !.phase = "returned"]
  /\ UNCHANGED <<envVars, accVars, lexVars, parseVars, lockVars, overflowChecks, out, evalIn,
                 evalSteps, last_value, had_error, current_file>>

NextRun ==
  \/ RunProduceAst
  \/ RunImport
  \/ RunPrePass
  \/ RunLint
  \/ RunImportAgain
  \/ RunItem
  \/ RunReturn

\* @println => |"text"| on source line `line`
Say(text, line) == PrintLn(StringLit(text, Location(line, 14)), line)

\* include "file";  and  include { names } from "file";
Include(file_path, methods, line) ==
  Statement(IncludeStmt(file_path, methods, Location(line, 1)))

\* use math;
UseMath(line) == Statement(UseStmt("math", None, Location(line, 1)))

\* let x: int = <expr>;
LetX(expr, line) ==
  Statement(VarDecl(FALSE, "x", "Int", Some(Expression(expr)), Location(line, 1)))

\* func f | | { @println => |"hi"| return 1; }
SayingFunction(line) ==
  Statement(FuncDecl("f", << >>,
                     <<Say("hi", line),
                       Statement(ReturnStmt(Some(Expression(IntLit(1, Location(line, 40)))),
                                            Location(line, 33)))>>,
                     Location(line, 1)))

\* f => | |
CallF(line) == CallExpr(Identifier("f", Location(line, 14)), << >>, Location(line, 14))

\* try { if true { let y: int = x + 1; } } catch |e| { }
\* if true { let x: int = 0; }
GrowingFile ==
  <<Statement(TryCatchStmt(
      <<Statement(IfStmt(BoolLit(TRUE, Location(1, 10)),
          <<Statement(VarDecl(FALSE, "y", "Int",
              Some(Expression(BinaryExpr(Identifier("x", Location(1, 30)), "+",
                                         IntLit(1, Location(1, 34)), Location(1, 32)))),
              Location(1, 17)))>>,
          None, Location(1, 7)))>>,
      Some(<< >>), Location(1, 1))),
    Statement(IfStmt(BoolLit(TRUE, Location(2, 4)),
      <<LetX(IntLit(0, Location(2, 24)), 2)>>, None, Location(2, 1)))>>

\* for |ident| in <collection> { body }: the loop variable of the statement
\* the parser builds has the type tag Any
ForIn(ident, collection, body, line) ==
  Statement(ForStmt(Some(VarDecl(FALSE, ident, "Any", Some(Expression(collection)),
                                 Location(line, 1))),
                    body, Location(line, 1)))

\* [1, 2]  and  {a: 1, b: 2}
OneTwoArray(line) ==
  ArrayLit(<<IntLit(1, Location(line, 13)), IntLit(2, Location(line, 16))>>,
           Location(line, 12))

OneTwoObject(line) ==
  ObjectLit(ParseObjectProperties(
              <<Property("a", IntLit(1, Location(line, 20)), Location(line, 17)),
                Property("b", IntLit(2, Location(line, 26)), Location(line, 23))>>),
            Location(line, 16))

\* x = x + 1
IncrementX(line) ==
  Expression(AssignExpr(Identifier("x", Location(line, 30)), "=",
                        BinaryExpr(Identifier("x", Location(line, 34)), "+",
                                   IntLit(1, Location(line, 38)), Location(line, 36)),
                        Location(line, 32)))

\* the files beside the main file, each as the Program of its text
Files ==
  (<<"lib.zk">> :> ProduceAst(<<Say("lib", 1), LetX(IntLit(1, Location(2, 14)), 2)>>))
  @@ (<<"grow.zk">> :> ProduceAst(GrowingFile))
  @@ (<<"bad.zk">> :> ProduceAst(<<PrintLn(DivByZero(1), 1)>>))
  @@ (<<"unbound.zk">> :> ProduceAst(<<Expression(Identifier("q", Location(1, 1)))>>))
  @@ (<<"dir", "a.zk">> :> ProduceAst(<<Say("a", 1), Include(<<"b.zk">>, None, 2)>>))
  @@ (<<"dir", "b.zk">> :> ProduceAst(<<Say("b", 1), LetY(2)>>))

\* the sources of the main file, by what they are chosen to show
RunSources ==
  [order |->
     {<<Say("main", 1), Include(<<"lib.zk">>, None, 2), LetY(3), UseMath(4)>>,
      <<Include(<<"lib.zk">>, None, 1), UseMath(2), Say("main", 3)>>,
      <<Say("main", 1), UseMath(2), Include(<<"dir", "a.zk">>, None, 3)>>,
      <<LetY(1), Say("main", 2)>>},
   lint |->
     {<<Say("main", 1), Include(<<"lib.zk">>, None, 2),
        Expression(Identifier("q", Location(3, 1))), LetY(4)>>,
      <<SayingFunction(1), LetX(CallF(2), 2), Expression(Identifier("q", Location(3, 1))),
        Expression(CallExpr(Identifier("z", Location(4, 1)), << >>, Location(4, 1)))>>,
      <<Expression(Identifier("q", Location(1, 1))),
        Expression(Identifier("q", Location(1, 1)))>>},
   effects |->
     {<<SayingFunction(1), Say("first", 2), LetX(CallF(3), 3)>>,
      <<Say("first", 1), PrintLn(DivByZero(2), 2), Say("last", 3)>>},
   loops |->
     {<<ForIn("v", OneTwoArray(1), <<PrintLn(Identifier("v", Location(1, 34)), 1)>>, 1)>>,
      <<ForIn("k, v", OneTwoObject(1), <<PrintLn(Identifier("v", Location(1, 34)), 1)>>,
              1)>>,
      <<LetX(IntLit(0, Location(1, 14)), 1), ForIn("v", OneTwoArray(2), <<IncrementX(2)>>, 2),
        PrintLn(Identifier("x", Location(3, 14)), 3)>>,
      <<LetX(IntLit(0, Location(1, 14)), 1), ForIn("k, v", OneTwoObject(2), <<IncrementX(2)>>, 2),
        PrintLn(Identifier("x", Location(3, 14)), 3)>>},
   dummies |->
     {<<LetX(DivByZero(1), 1), PrintLn(Identifier("x", Location(2, 14)), 2)>>,
      <<PrintLn(Identifier("x", Location(1, 14)), 1), LetX(IntLit(5, Location(2, 14)), 2)>>,
      <<Statement(FuncDecl("f", <<Param("a", "String")>>, <<Say("hi", 1)>>, Location(1, 1))),
        PrintLn(Identifier("a", Location(2, 14)), 2)>>,
      <<LetX(IntLit(0, Location(1, 14)), 1), PrintLn(Identifier("x", Location(2, 14)), 2)>>},
   include |->
     {<<Include(file, methods, 1)>> :
        file \in {<<"lib.zk">>, <<"grow.zk">>, <<"bad.zk">>, <<"unbound.zk">>,
                  <<"dir", "a.zk">>, <<"none.zk">>},
        methods \in {None, Some(<<"x">>), Some(<<"x", "q">>)}}]

\* the Environments the caller holds: new, or with a binding made before
RunEnvironments == {EnvironmentNew, Declare(EnvironmentNew, "k", IntV(7), FALSE)}

RunInputs ==
  {[op |-> "run", family |-> family, source |-> source, files |-> Files, env |-> e,
    file |-> file] :
     family \in DOMAIN RunSources, source \in UNION {RunSources[f] : f \in DOMAIN RunSources},
     e \in RunEnvironments, file \in {None, Some(<<"main.zk">>)}}

InitRun ==
  /\ callers = << >> /\ envOp = NoOp /\ envSteps = 0
  /\ AccStart
  /\ src = << >> /\ lexIndex = 0 /\ lexLine = 1 /\ lexColumn = 1 /\ tokens = << >>
  /\ lexPhase = "idle" /\ lexSkipped = 0
  /\ ParseIdle
  /\ overflowChecks \in BOOLEAN
  /\ evalIn \in {i \in RunInputs : i.source \in RunSources[i.family]}
  /\ env = evalIn.env
  /\ current_file = evalIn.file
  /\ frame = [phase |-> "source"]
  /\ LocksIdle
  /\ out = << >>
  /\ evalOp = NoOp
  /\ evalSteps = 0
  /\ last_value = None
  /\ had_error = FALSE

SpecRun == InitRun /\ [][NextRun]_vars

(***************************************************************************)
(* SpecLocks: push_error and print_and_clear_errors called from two        *)
(* threads (errors/mod.rs:249-276).  ERROR_SET and ERROR_LIST are each     *)
(* behind a std::sync::Mutex; lock() blocks while another thread holds the *)
(* guard, and a guard is released when it goes out of scope.  One action   *)
(* is one lock() together with the code that runs up to the next lock()    *)
(* or the return.                                                          *)
(***************************************************************************)
LockErrors ==
  { ZekkenError("Runtime", m, 1, 1, None) : m \in {"m", "n"} }

\* a thread enters push_error(error)
CallPushError(t, error) ==
  /\ thread[t] = Returned
  /\ thread' = [thread EXCEPT ![t] = [pc |-> "push_error: ERROR_SET.lock()",
                                      error |-> error]]
  /\ UNCHANGED <<mutex, envVars, accVars, lexVars, parseVars, runVars, evalVars>>

\* let mut set = ERROR_SET.lock().unwrap(); if set.insert(key) { ... }
\* A key already in the set ends the call, and `set` is dropped.
PushLockSet(t) ==
  /\ thread[t].pc = "push_error: ERROR_SET.lock()"
  /\ mutex.ERROR_SET = 0
  /\ ERROR_SET' = ERROR_SET \cup {ErrorKey(thread[t].error)}
  /\ IF ErrorKey(thread[t].error) \notin ERROR_SET
       THEN /\ mutex' = [mutex EXCEPT !.ERROR_SET = t]
            /\ thread' = [thread EXCEPT ![t].pc = "push_error: ERROR_LIST.lock()"]
            /\ accOp' = accOp
       ELSE /\ mutex' = mutex
            /\ thread' = [thread EXCEPT ![t] = Returned]
            /\ accOp' = [op |-> "push_error", error |-> thread[t].error]
  /\ UNCHANGED <<ERROR_LIST, pushedFirst, envVars, lexVars, parseVars, runVars,
                 evalVars>>

\* ERROR_LIST.lock().unwrap().push(error); then `set` is dropped
PushLockList(t) ==
  /\ thread[t].pc = "push_error: ERROR_LIST.lock()"
  /\ mutex.ERROR_LIST = 0
  /\ ERROR_LIST' = Append(ERROR_LIST, thread[t].error)
  /\ mutex' = [mutex EXCEPT !.ERROR_SET = 0]
  /\ thread' = [thread EXCEPT ![t] = Returned]
  /\ accOp' = [op |-> "push_error", error |-> thread[t].error]
  /\ UNCHANGED <<ERROR_SET, pushedFirst, envVars, lexVars, parseVars, runVars,
                 evalVars>>

\* a thread enters print_and_clear_errors()
CallPrintAndClearErrors(t) ==
  /\ thread[t] = Returned
  /\ thread' = [thread EXCEPT ![t] = [pc |-> "print_and_clear_errors: ERROR_LIST.lock()"]]
  /\ UNCHANGED <<mutex, envVars, accVars, lexVars, parseVars, runVars, evalVars>>

\* let mut errors = ERROR_LIST.lock().unwrap(); an empty list returns false,
\* a non-empty one is printed and cleared
PrintLockList(t) ==
  /\ thread[t].pc = "print_and_clear_errors: ERROR_LIST.lock()"
  /\ mutex.ERROR_LIST = 0
  /\ ERROR_LIST' = << >>
  /\ IF ERROR_LIST # << >>
       THEN /\ mutex' = [mutex EXCEPT !.ERROR_LIST = t]
            /\ thread' = [thread EXCEPT
                            ![t] = [pc |-> "print_and_clear_errors: ERROR_SET.lock()",
                                    printed |-> ERROR_LIST]]
            /\ accOp' = accOp
       ELSE /\ mutex' = mutex
            /\ thread' = [thread EXCEPT ![t] = Returned]
            /\ accOp' = [op |-> "print_and_clear_errors", printed |-> << >>,
                         ret |-> FALSE]
  /\ UNCHANGED <<ERROR_SET, pushedFirst, envVars, lexVars, parseVars, runVars,
                 evalVars>>

\* ERROR_SET.lock().unwrap().clear(); true; then `errors` is dropped
PrintLockSet(t) ==
  /\ thread[t].pc = "print_and_clear_errors: ERROR_SET.lock()"
  /\ mutex.ERROR_SET = 0
  /\ ERROR_SET' = {}
  /\ mutex' = [mutex EXCEPT !.ERROR_LIST = 0]
  /\ thread' = [thread EXCEPT ![t] = Returned]
  /\ accOp' = [op |-> "print_and_clear_errors", printed |-> thread[t].printed,
               ret |-> TRUE]
  /\ UNCHANGED <<ERROR_LIST, pushedFirst, envVars, lexVars, parseVars, runVars,
                 evalVars>>

\* the steps of thread t inside a call
ThreadStep(t) == PushLockSet(t) \/ PushLockList(t) \/ PrintLockList(t) \/ PrintLockSet(t)

NextLocks ==
  \/ \E t \in Threads, e \in LockErrors : CallPushError(t, e)
  \/ \E t \in Threads : CallPrintAndClearErrors(t)
  \/ \E t \in Threads : PushLockSet(t)
  \/ \E t \in Threads : PushLockList(t)
  \/ \E t \in Threads : PrintLockList(t)
  \/ \E t \in Threads : PrintLockSet(t)

InitLocks == EnvStart /\ AccStart /\ LexIdle /\ EvalIdle

\* The scheduler runs every thread that is not blocked: a step of a thread
\* that stays possible is taken.
SpecLocks == InitLocks /\ [][NextLocks]_vars /\ \A t \in Threads : WF_vars(ThreadStep(t))

(***************************************************************************)
(* C1.  Constants cannot be reassigned.                                    *)
(***************************************************************************)
\* Whether lookup(name) is answered from a `constants` map: at the innermost
\* scope that binds the name, the name is no key of `variables`.
RECURSIVE ResolvesToConstantAt(_, _, _)
ResolvesToConstantAt(e, d, name) ==
  IF MapHas(e[d].variables, name) THEN FALSE
  ELSE IF MapHas(e[d].constants, name) THEN TRUE
  ELSE IF d > 1 THEN ResolvesToConstantAt(e, d - 1, name)
  ELSE FALSE

ResolvesToConstant(e, name) == ResolvesToConstantAt(e, Len(e), name)

\* C1: whenever assign(name, v) is called for a name whose lookup resolves to
\* an entry of a `constants` map (possibly shadowing an outer variable of the
\* same name), assign returns an error that mentions the name and no map of
\* any scope of the chain has changed.
C1_ConstantAssignFails ==
  (envOp.op = "assign" /\ ResolvesToConstant(envOp.before, envOp.name))
    => /\ ~envOp.ok
       /\ envOp.err = "Cannot reassign constant '" \o envOp.name \o "'"
       /\ env = envOp.before

(***************************************************************************)
(* C2.  Scope isolation of block bodies.                                   *)
(***************************************************************************)
\* the last step ran a top-level block statement (if/else, while, for, try)
\* of a scope program to completion, and y was not bound before it
BlockCompleted ==
  /\ evalIn.op = "program"
  /\ evalIn.family = "scope"
  /\ evalOp.op = "statement"
  /\ evalSteps = Len(evalIn.content) - 1
  /\ evalOp.result.tag = "Ok"
  /\ ~Lookup(evalOp.before, "y").some

\* C2: a name declared by let inside the body of an if, else, while, for or
\* try block, and not bound before the statement, is not visible (lookup
\* fails) in the enclosing scope after the statement has completed.
C2_BlockDeclarationsNotVisible ==
  BlockCompleted => ~Lookup(env, "y").some

\* The blocks for which C2 does hold: the body of a for over an object and
\* the catch block run in a child of a clone of the Environment.
C2_IsolatedBlocks ==
  (BlockCompleted /\ evalIn.block \in {"for-object", "catch"}) => ~Lookup(env, "y").some

\* Every other block body runs in the enclosing Environment itself.
C2_SharedBlocks ==
  (BlockCompleted /\ evalIn.block \in {"if", "else", "while", "for-array", "try", "try-fails"})
    => Lookup(env, "y") = Some(IntV(1))

(***************************************************************************)
(* C3.  Deduplication of pushed errors.                                    *)
(***************************************************************************)
\* C3: after any sequence of push_error calls since the last drain, the list
\* holds exactly the first error pushed for each distinct key, in the order of
\* the first pushes (so one entry per key); and a push_error whose key is
\* already in the list changes neither the list nor the set.
C3_Deduplication ==
  /\ [](ERROR_LIST = pushedFirst)
  /\ [][ (accOp'.op = "push_error" /\ ErrorKey(accOp'.error) \in SeqKeys(ERROR_LIST))
           => UNCHANGED <<ERROR_LIST, ERROR_SET>> ]_vars

\* The same key was pushed twice with different payloads, and a second key after it.
C3_PushedTwice ==
  /\ accOp.op = "push_error"
  /\ Len(ERROR_LIST) = 2
  /\ ErrorKey(accOp.error) = ErrorKey(ERROR_LIST[1])
  /\ accOp.error # ERROR_LIST[1]

(***************************************************************************)
(* C7, C8.  The scanner.                                                   *)
(***************************************************************************)
RECURSIVE SumLengths(_)
SumLengths(toks) == IF toks = << >> THEN 0 ELSE Head(toks).length + SumLengths(Tail(toks))

\* C7: tokenize terminates, every iteration of the scan loop advances the
\* index by at least one, it never panics, and the sequence it returns ends
\* with an EOF token and holds no other EOF token.
C7_TokenizeTerminatesWithEOF ==
  /\ <>(lexPhase = "done")
  /\ [](lexPhase # "panic")
  /\ [][(lexPhase = "scan" /\ lexPhase' = "scan") => lexIndex' >= lexIndex + 1]_vars
  /\ [](lexPhase = "done" =>
          /\ tokens[Len(tokens)].kind = "EOF"
          /\ \A i \in 1..(Len(tokens) - 1) : tokens[i].kind # "EOF")

\* tokenize has returned for a source with an unterminated block comment and an
\* unknown character after it
C7_MalformedScanned ==
  /\ lexPhase = "done"
  /\ src = <<"/", "*", "#">>
  /\ Len(tokens) = 2

\* C8: when tokenize returns, the length fields of the tokens plus the number
\* of skipped whitespace characters add up to the length of the source.
C8_LengthsCoverSource ==
  lexPhase = "done" => SumLengths(tokens) + lexSkipped = Len(src)

(***************************************************************************)
(* C4.  Division and modulo by zero.                                       *)
(***************************************************************************)
\* the value a numeric literal evaluates to
LiteralValue(lit) ==
  IF lit.t = "IntLit" THEN IntV(lit.value) ELSE FloatV(lit.num, lit.den)

\* the left operand of the evaluated arithmetic: the left literal of a
\* binary expression, the value of the assigned variable of a compound one
LeftOperand ==
  IF evalIn.op = "binary" THEN LiteralValue(evalIn.expr.left)
  ELSE Lookup(evalIn.env, evalIn.expr.left.name).v

RightOperand == LiteralValue(evalIn.expr.right)

IsZero(v) == (v.t = "Int" /\ v.i = 0) \/ (v.t = "Float" /\ v.num = 0)

\* C4: for every matched pair of numeric operands (Int, Int or Float, Float)
\* whose right operand is zero, `/`, `%`, `/=` and `%=` evaluate to an error
\* of kind Runtime, and for a division the error carries the extra context
\* "division by zero".
C4_ZeroDivisorIsRuntimeError ==
  ( /\ evalOp.op \in {"binary", "compound"}
    /\ evalIn.expr.operator \in {"/", "%", "/=", "%="}
    /\ LeftOperand.t = RightOperand.t
    /\ IsZero(RightOperand) )
    => /\ evalOp.result.tag = "Err"
       /\ evalOp.result.e.kind = "Runtime"
       /\ (evalIn.expr.operator \in {"/", "/="}
             => evalOp.result.e.extra = Some("division by zero"))

(***************************************************************************)
(* C5.  Integer arithmetic never panics.                                   *)
(***************************************************************************)
\* C5: for all integers x and y of the width and every operator of + - * / %,
\* evaluating `x op y` returns an Int or a structured error; it never panics,
\* whatever the build profile.
C5_IntegerArithmeticNeverPanics ==
  ( /\ evalOp.op = "binary"
    /\ evalIn.expr.left.t = "IntLit"
    /\ evalIn.expr.right.t = "IntLit" )
    => \/ evalOp.result.tag = "Ok" /\ evalOp.result.v.t = "Int"
       \/ evalOp.result.tag = "Err"

(***************************************************************************)
(* C6.  Object key order.                                                  *)
(***************************************************************************)
\* C6: for every object literal { k1: e1, ..., kn: en }, keys(), values() and
\* entries() of the object it evaluates to enumerate exactly the properties
\* of the literal, in the order k1..kn of the source, and never the synthetic
\* `__keys__` entry.
C6_MethodsFollowSourceOrder ==
  evalOp.op = "method"
    => /\ evalOp.result.tag = "Ok"
       /\ evalOp.result.v.t = "Array"
       /\ Len(evalOp.result.v.a) = Len(evalIn.props)
       /\ \A i \in 1..Len(evalIn.props) :
            LET key == StringV(evalIn.props[i].key)
                value == LiteralValue(evalIn.props[i].value)
            IN evalOp.result.v.a[i] =
                 CASE evalIn.expr.callee.property.name = "keys" -> key
                   [] evalIn.expr.callee.property.name = "values" -> value
                   [] evalIn.expr.callee.property.name = "entries" ->
                        ArrayV(<<key, value>>)

(***************************************************************************)
(* C9.  try/catch interrupts the propagation of an error.                  *)
(***************************************************************************)
\* the last step ran the try/catch statement of a try program
TryStep ==
  /\ evalIn.op = "program"
  /\ evalIn.family = "try"
  /\ evalOp.op = "statement"

\* the try block of that statement evaluated alone, from the state the
\* statement started in
TryBlockAlone ==
  EvalBlockContent(evalOp.item.stmt.try_block, 1,
                   [env |-> evalOp.before, out |-> evalOp.outBefore, fuel |-> MaxFuel],
                   None)

\* what the statement wrote after its try block
WrittenAfterTry == SubSeq(out, Len(TryBlockAlone.st.out) + 1, Len(out))

\* the lines @println writes for the kind, message, line and column of error
FieldLines(error) ==
  << KindDebug(error.kind) \o "\n", error.message \o "\n",
     IntToString(error.line) \o "\n", IntToString(error.column) \o "\n" >>

\* the value of the last item of the catch block drawn
CatchResult ==
  CASE evalIn.block = "fields" -> Some(IntV(5))
    [] evalIn.block = "declares" -> None
    [] evalIn.block = "prints" -> Some(VoidV)

\* C9: when the try block raises an error, the catch block runs with e bound
\* to an object whose kind, message, line and column are those of the error;
\* if the catch block completes without error the statement returns Ok with
\* the catch block's result and the error is neither returned nor pushed to
\* the accumulator.  When the try block raises no error the catch block is
\* not executed and the statement returns the try block's result.
C9_CatchInterruptsPropagation ==
  TryStep =>
    IF TryBlockAlone.tag = "Err"
      THEN /\ WrittenAfterTry # << >>
           /\ Head(WrittenAfterTry) = CatchMarker \o "\n"
           /\ evalIn.block = "fields"
                => Tail(WrittenAfterTry) = FieldLines(TryBlockAlone.e)
           /\ evalIn.block # "raises"
                => /\ evalOp.result.tag = "Ok"
                   /\ evalOp.result.v = CatchResult
                   /\ last_value = CatchResult
                   /\ ~had_error
                   /\ ERROR_LIST = evalOp.listBefore
                   /\ ERROR_SET = {}
      ELSE /\ WrittenAfterTry = << >>
           /\ evalOp.result.tag = "Ok"
           /\ evalOp.result.v = TryBlockAlone.v
           /\ ERROR_LIST = << >>

\* a try block raised an error of the given kind and the catch block that
\* prints the fields of e completed
C9_ErrorCaught ==
  /\ TryStep
  /\ TryBlockAlone.tag = "Err"
  /\ TryBlockAlone.e.kind = "Runtime"
  /\ evalIn.block = "fields"
  /\ evalOp.result.tag = "Ok"
  /\ ERROR_LIST = << >>

(***************************************************************************)
(* C10.  return unwinds the enclosing function.                            *)
(***************************************************************************)
\* the last step evaluated the call f() of a return program
CallStep ==
  /\ evalIn.op = "program"
  /\ evalIn.family = "return"
  /\ evalOp.op = "expression"

\* the text the statement after the return would write
AfterReturnLine == ValueToString(LiteralValue(AfterReturn)) \o "\n"

\* C10: when a return statement executes during a call of a user-defined
\* function (directly in the body or nested inside if/while), no later
\* statement of the body is executed and the call expression evaluates to
\* the value of the return operand.
C10_ReturnUnwindsFunction ==
  CallStep =>
    /\ evalOp.result.tag = "Ok"
    /\ evalOp.result.v = IntV(1)
    /\ \A i \in 1..Len(out) : out[i] # AfterReturnLine

\* The bodies for which C10 does hold are those whose return is the last
\* item the body executes.
C10_ReturnIsLastItem ==
  (CallStep /\ evalOp.result.tag = "Ok" /\ evalOp.result.v = IntV(1))
    => \A i \in 1..Len(out) : out[i] # AfterReturnLine

(***************************************************************************)
(* C11.  Arguments are type-checked against the parameters.                *)
(***************************************************************************)
\* the last step evaluated the call f(arg) of an args program, f declared
\* as func f(int a)
ArgCallStep ==
  /\ evalIn.op = "program"
  /\ evalIn.family = "args"
  /\ evalOp.op = "expression"

\* the runtime type of the argument differs from the declared type of a
ArgMismatch ==
  ~CheckValueType(EvalExpr(evalOp.item.expr.args[1],
                           [env |-> evalOp.before, out |-> << >>, fuel |-> MaxFuel]).v,
                  evalOp.before[1].variables["f"].params[1].type)

\* C11: in a call of a user-defined function, if an argument's runtime type
\* differs from the declared type of its parameter, the call fails with an
\* error and no statement of the function body is executed.
C11_ArgumentsAreTypeChecked ==
  (ArgCallStep /\ ArgMismatch)
    => /\ evalOp.result.tag = "Err"
       /\ \A i \in 1..Len(out) : out[i] # BodyMarker \o "\n"

\* A call whose argument has the declared type runs the body.
C11_MatchingArgumentRuns ==
  (ArgCallStep /\ ~ArgMismatch)
    => evalOp.result.tag = "Ok" /\ out = <<BodyMarker \o "\n">>

(***************************************************************************)
(* C12.  Equality of operands of different types.                          *)
(***************************************************************************)
\* the value an operand of the evaluated comparison has
OperandValue(expr) ==
  EvalExpr(expr, [env |-> evalOp.before, out |-> << >>, fuel |-> MaxFuel]).v

\* the last evaluation compared two values of different runtime types
HeterogeneousComparison ==
  /\ evalOp.op = "equality"
  /\ OperandValue(evalIn.expr.left).t # OperandValue(evalIn.expr.right).t

\* C12: for any two runtime values of different types, including an Int
\* compared with a Float, == evaluates to Boolean false and != to Boolean
\* true, without raising an error.
C12_HeterogeneousEquality ==
  HeterogeneousComparison
    => /\ evalOp.result.tag = "Ok"
       /\ evalOp.result.v = BoolV(evalIn.expr.operator = "!=")

\* Apart from Int against Float, values of different types do compare
\* unequal.
C12_UnequalUnlessIntAndFloat ==
  ( /\ HeterogeneousComparison
    /\ {OperandValue(evalIn.expr.left).t, OperandValue(evalIn.expr.right).t}
         # {"Int", "Float"} )
    => /\ evalOp.result.tag = "Ok"
       /\ evalOp.result.v = BoolV(evalIn.expr.operator = "!=")

(***************************************************************************)
(* C15.  Top-level catch-and-continue.                                     *)
(***************************************************************************)
\* the value evaluate_program keeps for an item that returned Ok
KeptValue(op) == IF op.op = "expression" THEN Some(op.result.v) ELSE op.result.v

\* one step of the execution pass of a program, as C15 describes it
CatchAndContinueStep ==
  /\ evalOp'.op \in {"statement", "expression"} /\ evalOp' # evalOp
       => /\ evalSteps' = evalSteps + 1
          /\ evalOp'.item = evalIn.content[evalSteps + 1]
          /\ evalOp'.result.tag = "Err"
               => /\ ErrorKey(evalOp'.result.e) \in ERROR_SET'
                  /\ \E i \in 1..Len(ERROR_LIST') : ERROR_LIST'[i] = evalOp'.result.e
                  /\ ErrorKey(evalOp'.result.e) \notin ERROR_SET
                       => ERROR_LIST' = Append(ERROR_LIST, evalOp'.result.e)
          /\ evalOp'.result.tag = "Ok" => ERROR_LIST' = ERROR_LIST
  /\ evalOp'.op = "return" /\ evalOp.op # "return"
       => /\ evalSteps = Len(evalIn.content)
          /\ evalOp'.result.tag = "Err" <=> ERROR_LIST # << >>
          /\ evalOp'.result.tag = "Err"
               => evalOp'.result.e = InternalError("Multiple runtime errors occurred")
          /\ evalOp'.result.tag = "Ok"
               => evalOp'.result.v = IF evalOp.op = "none" THEN None ELSE KeptValue(evalOp)

\* C15: in the execution pass, when top-level item i returns an error, that
\* error is pushed to the accumulator and the items i+1..n are still
\* evaluated in order; evaluate_program returns the marker error "Multiple
\* runtime errors occurred" if and only if at least one top-level item
\* failed, and Ok(last value) otherwise.
C15_CatchAndContinue ==
  /\ [][evalIn.op = "program" => CatchAndContinueStep]_vars
  /\ [](evalIn.op = "program" /\ evalOp.op \in {"statement", "expression"}
          /\ evalOp.result.tag = "Err" /\ evalSteps < Len(evalIn.content)
        => ENABLED (ExecStatement \/ ExecExpression))

\* the first item failed, the two after it were evaluated, the second being
\* another failure, and the program returned the marker error
C15_ContinuedAfterError ==
  /\ evalIn.op = "program"
  /\ evalIn.family = "continue"
  /\ evalOp.op = "return"
  /\ evalOp.result.tag = "Err"
  /\ Len(ERROR_LIST) = 2
  /\ ERROR_LIST[1].line = 1
  /\ ERROR_LIST[2].line = 2
  /\ out = <<"3\n">>

(***************************************************************************)
(* C20.  Array mutation writes back.                                       *)
(***************************************************************************)
\* the last step called push or pop on the identifier a
ArrayStep == evalIn.op = "array" /\ evalOp.op = "array"

ArrayMethod == evalIn.expr.callee.property.name

\* the array a held before the call
PreviousArray == Lookup(evalOp.before, "a").v.a

\* the value of the argument of push, evaluated where the call was
PushedValue ==
  EvalExpr(evalIn.expr.args[1],
           [env |-> evalOp.before, out |-> << >>, fuel |-> MaxFuel]).v

\* the scope of the chain that binds a: the innermost with a among its
\* variables
RECURSIVE BindingDepth(_, _)
BindingDepth(e, d) ==
  IF MapHas(e[d].variables, "a") \/ d = 1 THEN d ELSE BindingDepth(e, d - 1)

\* the Environment before the call with the binding of a replaced
WrittenBack(arr) ==
  [evalOp.before EXCEPT ![BindingDepth(evalOp.before, Len(evalOp.before))].variables =
     MapInsert(@, "a", ArrayV(arr))]

ParserEnded == parseOp.op = "parse_stmt" /\ parseOp.tag \in {"Exit", "Panic"}

\* C19: when expect meets a token of another kind than required, or a
\* primary expression starts with an unexpected token, the parser records a
\* Syntax error and continues at a later statement boundary, so that
\* produce_ast always returns a Program; it never terminates the process and
\* never panics.
C19_ParserNeverEndsTheProcess == ~ParserEnded

\* The statements that parse are pushed to program.content in order, and
\* produce_ast returns once the token at `current` is EOF.
C19_ParsedStatementsAreKept ==
  /\ parseOp.op = "parse_stmt" /\ parseOp.tag = "Ok"
       => /\ current > parseOp.from
          /\ program.content # << >>
  /\ parseOp.op = "return" => tokens[current + 1].kind = "EOF"
  /\ parseOp.op = "parse_stmt" => parseOp.tag # "Unmodelled"

(***************************************************************************)
(* C14.  Lint errors skip the execution.                                   *)
(***************************************************************************)
\* the lint loop of this call found at least one error
LintRefused ==
  /\ evalIn.op = "run"
  /\ "lint_errors" \in DOMAIN evalOp
  /\ evalOp.lint_errors # << >>

\* C14: when the lint loop finds at least one error, evaluate_program
\* returns Err, no import is evaluated on env and no item of the execution
\* loop runs, the caller's Environment is the one it passed in, and every
\* lint error that is not Internal is in the accumulator.
C14_LintErrorsSkipExecution ==
  LintRefused =>
    /\ frame.phase = "returned"
    /\ evalOp.op = "return"
    /\ evalOp.result.tag = "Err"
    /\ evalSteps = 0
    /\ frame.reimported = 0
    /\ ~ENABLED (RunImportAgain \/ RunItem)
    /\ env = evalIn.env
    /\ \A i \in 1..Len(evalOp.lint_errors) :
         evalOp.lint_errors[i].kind # "Internal" =>
           /\ ErrorKey(evalOp.lint_errors[i]) \in ERROR_SET
           /\ \E j \in 1..Len(ERROR_LIST) :
                ErrorKey(ERROR_LIST[j]) = ErrorKey(evalOp.lint_errors[i])

\* two lint errors after a pre-pass that bound f and x in temp_env and ran
\* f twice, in a caller's Environment that held a binding of its own
C14_LintRefusedAfterPrePass ==
  /\ LintRefused
  /\ Len(evalOp.lint_errors) = 2
  /\ Len(ERROR_LIST) = 2
  /\ out = <<"hi\n", "hi\n">>
  /\ Lookup(frame.temp_env, "f").some
  /\ ~Lookup(env, "f").some
  /\ Lookup(env, "k") = Some(IntV(7))

(***************************************************************************)
(* C13.  Imports run first.                                                *)
(***************************************************************************)
\* the top-level `use` and `include` statements of the source, in the order
\* of the text
SourceImports ==
  SelectSeq(evalIn.source, LAMBDA c : c.c = "Statement" /\ c.stmt.t \in {"Use", "Include"})

\* a step of one of the two loops over the imports takes the import that
\* follows, in the order of the text, the ones the loop has taken
ImportStep ==
  evalOp'.op \in {"import", "reimport"} =>
    /\ frame.k <= Len(SourceImports)
    /\ evalOp'.item = SourceImports[frame.k].stmt
    /\ frame'.k = frame.k + 1

\* C13: in every program evaluation each loop over the imports takes the
\* top-level `use` and `include` statements in the order of the text, and
\* when the first item that is not an import is executed every one of them
\* has been processed, wherever it stands in the text.
C13_ImportsRunFirst ==
  /\ [][evalIn.op = "run" => ImportStep]_vars
  /\ [](evalIn.op = "run" /\ evalOp.op = "item" =>
          /\ evalOp.item.c = "Statement" => evalOp.item.stmt.t \notin {"Use", "Include"}
          /\ frame.imported = Len(SourceImports)
          /\ frame.reimported = Len(SourceImports))

\* the first item runs after an include and a `use` that stand after it in
\* the text: what the included file prints comes before what the item prints
C13_IncludeAfterItemRanFirst ==
  /\ evalIn.op = "run"
  /\ evalOp.op = "item"
  /\ evalSteps = 1
  /\ evalIn.source[1] = evalOp.item
  /\ Len(SourceImports) = 2
  /\ frame.reimported = 2
  /\ out = <<"lib\n", "lib\n", "main\n">>
  /\ Lookup(env, "math").some

(***************************************************************************)
(* C16.  Side effects occur in program order.                              *)
(***************************************************************************)
\* C16: within one program evaluation the side effects occur in program
\* order, and none is produced by the declaration pre-pass before the
\* execution loop reaches the item that causes it: the pre-pass leaves the
\* output and the reported errors as they were when it started.
C16_NoEffectBeforeExecution ==
  evalIn.op = "run" /\ evalOp.op = "pre-pass" =>
    /\ out = evalOp.before.out
    /\ ERROR_LIST = evalOp.before.list

\* what the run of `func f |..| {print hi}`, `print first`, `let x = f()` has
\* printed when it returns
C16_InitialiserRanThreeTimes ==
  /\ evalIn.op = "run"
  /\ evalIn.family = "effects"
  /\ frame.phase = "returned"
  /\ out = <<"hi\n", "hi\n", "first\n", "hi\n">>

(***************************************************************************)
(* C17.  evaluate_include restores ZEKKEN_CURRENT_FILE.                    *)
(***************************************************************************)
\* the last step was a call of evaluate_include that returned
IncludeReturned ==
  /\ evalIn.op = "run"
  /\ evalOp.op \in {"import", "reimport", "return"}
  /\ "item" \in DOMAIN evalOp
  /\ evalOp.item.t = "Include"
  /\ evalOp.result.tag \in {"Ok", "Err"}

\* C17: after every call of evaluate_include that returns, Ok or Err, the
\* process variable ZEKKEN_CURRENT_FILE has the value it had before the
\* call (unset when it was unset); the included file is evaluated with the
\* variable holding its path, which is what EvaluateInclude passes on.
C17_CurrentFileRestored ==
  IncludeReturned =>
    /\ evalOp.result.st.file = evalOp.before.file
    /\ current_file = evalOp.before.file

\* an include at depth two, evaluated with the variable set before the
\* call, leaves it as it was: dir/a.zk found its neighbour dir/b.zk
C17_RestoredWhenSet ==
  /\ IncludeReturned
  /\ evalOp.before.file = Some(<<"main.zk">>)
  /\ current_file = Some(<<"main.zk">>)
  /\ evalOp.item.file_path = <<"dir", "a.zk">>
  /\ evalOp.result.tag = "Ok"
  /\ out = <<"b\n", "b\n", "a\n">>

\* the first include of a process that started with the variable unset
\* leaves it set to the text "<unknown>"
C17_UnsetBecomesUnknown ==
  /\ IncludeReturned
  /\ evalOp.before.file = None
  /\ current_file = Some(UnknownFile)

(***************************************************************************)
(* C18.  Include idempotence.                                              *)
(***************************************************************************)
\* the last step evaluated an include statement in the state `before`
IncludeStep ==
  /\ evalIn.op = "run"
  /\ evalOp.op \in {"import", "reimport", "return"}
  /\ "item" \in DOMAIN evalOp
  /\ evalOp.item.t = "Include"

\* the Environment evaluate_include leaves when it is called `n` more times
\* on the state of the result r, or None when a call does not return Ok
RECURSIVE IncludedTimes(_, _, _)
IncludedTimes(include, n, r) ==
  IF r.tag # "Ok" THEN None
  ELSE IF n = 0 THEN Some(r.st.env)
  ELSE IncludedTimes(include, n - 1, EvaluateInclude(include, r.st))

\* C18: for every includable file and every binding set, evaluating the
\* same include statement twice in succession in an Environment yields the
\* Environment that evaluating it once yields.
C18_IncludeIdempotent ==
  IncludeStep /\ IncludedTimes(evalOp.item, 1, ROk(None, evalOp.before)).some =>
    IncludedTimes(evalOp.item, 2, ROk(None, evalOp.before))
      = IncludedTimes(evalOp.item, 1, ROk(None, evalOp.before))

\* the file whose second evaluation sees the x its first one exported: one
\* include binds x, two bind x and y
C18_SecondIncludeBindsMore ==
  /\ IncludeStep
  /\ evalOp.item.methods = None
  /\ ~Lookup(evalOp.before.env, "x").some
  /\ IncludedTimes(evalOp.item, 1, ROk(None, evalOp.before)).some
  /\ ~Lookup(IncludedTimes(evalOp.item, 1, ROk(None, evalOp.before)).v, "y").some
  /\ Lookup(IncludedTimes(evalOp.item, 2, ROk(None, evalOp.before)).v, "y") = Some(IntV(1))

(***************************************************************************)
(* C21.  push and pop need a variable to update.                           *)
(***************************************************************************)
\* the last step called push or pop on a receiver that is no identifier
ReceiverStep == evalIn.op = "receiver" /\ evalOp.op = "receiver"

\* C21: a push or pop whose receiver is not a bare identifier is rejected
\* with an error and changes no binding of the Environment.
C21_ReceiverWithoutVariableRejected ==
  ReceiverStep => evalOp.result.tag = "Err" /\ env = evalOp.before

\* pop on the literal [1, 2] answered 2, and no binding changed
C21_PopOnLiteralAnswers ==
  /\ ReceiverStep
  /\ evalIn.form = "literal"
  /\ evalIn.method = "pop"
  /\ evalOp.result.tag = "Ok"
  /\ evalOp.result.v = IntV(2)
  /\ env = evalOp.before

\* what holds of the code: push is rejected whatever the receiver holds, pop
\* is rejected only when the array is empty, and neither changes a binding
C21_OnlyPushRejected ==
  ReceiverStep =>
    /\ env = evalOp.before
    /\ evalIn.method = "push" => evalOp.result.tag = "Err"

(***************************************************************************)
(* C22.  Unary minus.                                                      *)
(***************************************************************************)
\* the last step evaluated the expression parsed from the text of a negation
NegateStep == evalIn.op = "parsed" /\ evalOp.op = "parsed"

\* the operand of the outermost minus of the text, and what it evaluates to
NegatedOperand == evalOp.expr.right

OperandResult == EvalExpr(NegatedOperand, StartState(evalOp.before))

\* 0 - e, with the zero of the type of what e evaluates to
ZeroMinus(v) ==
  CASE v.t = "Int" -> IntV(0 - v.i)
    [] v.t = "Float" -> FloatV(0 - v.num, v.den)

\* e evaluates to the least Int, which has no negation
NegationOverflows == OperandResult.tag = "Ok" /\ OperandResult.v = IntV(MinInt)

\* C22: `-e` evaluates to what `0 - e` evaluates to: to Int(-n) when e
\* evaluates to Int n, to Float(-f) when e evaluates to Float f, and to an
\* error when e does or is no number.
C22_UnaryMinusNegates ==
  NegateStep /\ OperandResult.tag \in {"Ok", "Err"} /\ ~NegationOverflows =>
    IF OperandResult.tag = "Ok" /\ OperandResult.v.t \in {"Int", "Float"}
      THEN evalOp.result.tag = "Ok" /\ evalOp.result.v = ZeroMinus(OperandResult.v)
      ELSE evalOp.result.tag = "Err"

\* `- a` with a bound to the Int 2 is a Type error
C22_NegatedIntIsTypeError ==
  /\ NegateStep
  /\ Lookup(evalOp.before, "a") = Some(IntV(2))
  /\ NegatedOperand.t = "Identifier"
  /\ evalOp.result.tag = "Err"
  /\ evalOp.result.e.kind = "Type"

\* what holds of the code: the text is read as 0.0 - e, which negates a
\* Float and fails on everything else
C22_UnaryMinusNegatesFloats ==
  NegateStep /\ OperandResult.tag \in {"Ok", "Err"} =>
    IF OperandResult.tag = "Ok" /\ OperandResult.v.t = "Float"
      THEN evalOp.result.tag = "Ok" /\ evalOp.result.v = ZeroMinus(OperandResult.v)
      ELSE evalOp.result.tag = "Err"

(***************************************************************************)
(* C23.  assign resolves outward.                                          *)
(***************************************************************************)
AssignStep == envOp.op = "assign"

\* the depth of the innermost scope, at depth d or outside it, whose
\* `variables` map has the name; 0 when no scope has it
RECURSIVE InnermostVariableAt(_, _, _)
InnermostVariableAt(e, d, name) ==
  IF d = 0 THEN 0
  ELSE IF MapHas(e[d].variables, name) THEN d
  ELSE InnermostVariableAt(e, d - 1, name)

InnermostVariable(e, name) == InnermostVariableAt(e, Len(e), name)

\* the chain e with v stored in the `variables` map of the scope at depth d
Replaced(e, d, name, v) == [e EXCEPT ![d].variables = MapInsert(@, name, v)]

\* C23: assign(name, v) resolves outward: when name is a key of some scope's
\* `variables` map, exactly the innermost such scope's entry is replaced by v
\* and every other binding of every scope of the chain is unchanged; when
\* name is bound in no scope of the chain, assign fails with a Reference
\* error and changes nothing.
C23_AssignResolvesOutward ==
  AssignStep =>
    IF InnermostVariable(envOp.before, envOp.name) > 0
      THEN env = Replaced(envOp.before,
                          InnermostVariable(envOp.before, envOp.name),
                          envOp.name, envOp.value)
    ELSE IF ~Lookup(envOp.before, envOp.name).some
      THEN /\ envOp.result.tag = "Err"
           /\ envOp.result.e.kind = "Reference"
           /\ env = envOp.before
    ELSE TRUE

\* An assignment to a name bound in no scope fails with a Runtime error.
C23_UnboundIsRuntimeError ==
  /\ AssignStep
  /\ ~Lookup(envOp.before, envOp.name).some
  /\ envOp.result.tag = "Err"
  /\ envOp.result.e.kind = "Runtime"
  /\ envOp.result.e.message = "Variable '" \o envOp.name \o "' not found"
  /\ env = envOp.before

\* An assignment to a name that the innermost scope with the variable also
\* holds as a constant is refused, and the variable keeps its old value.
C23_VariableWithConstantRefused ==
  /\ AssignStep
  /\ InnermostVariable(envOp.before, envOp.name) > 0
  /\ MapHas(envOp.before[InnermostVariable(envOp.before, envOp.name)].constants,
            envOp.name)
  /\ envOp.before[InnermostVariable(envOp.before, envOp.name)].variables[envOp.name]
       # envOp.value
  /\ ~envOp.ok
  /\ env = envOp.before

\* What assign does: the innermost `variables` entry is replaced unless the
\* same scope holds the name as a constant too; every failure is a Runtime
\* error and leaves the chain as it was.
C23_AssignReplacesOrRuntimeError ==
  AssignStep =>
    IF /\ InnermostVariable(envOp.before, envOp.name) > 0
       /\ ~MapHas(envOp.before[InnermostVariable(envOp.before, envOp.name)].constants,
                  envOp.name)
      THEN /\ envOp.result.tag = "Ok"
           /\ env = Replaced(envOp.before,
                             InnermostVariable(envOp.before, envOp.name),
                             envOp.name, envOp.value)
      ELSE /\ envOp.result.tag = "Err"
           /\ envOp.result.e.kind = "Runtime"
           /\ env = envOp.before

(***************************************************************************)
(* C24.  One map per name and scope.                                       *)
(***************************************************************************)
\* the names a scope holds in both of its maps
InBothMaps(scope) == (DOMAIN scope.variables) \cap (DOMAIN scope.constants)

\* C24: in every state reachable from Environment::new() by declare (with
\* either constant flag) and assign, no name is a key of both the
\* `variables` map and the `constants` map of the same scope.
C24_NoNameInBothMaps ==
  \A d \in 1..Len(env) : InBothMaps(env[d]) = {}

\* declare of a name the current scope holds in the other map leaves the
\* name in both maps.
C24_DeclaredBothWays ==
  /\ envOp.op = "declare"
  /\ envOp.name \in InBothMaps(envOp.before[Len(envOp.before)]) \cup
                    DOMAIN (IF envOp.constant
                              THEN envOp.before[Len(envOp.before)].variables
                              ELSE envOp.before[Len(envOp.before)].constants)
  /\ envOp.name \in InBothMaps(env[Len(env)])

\* declare touches the one map its flag names and no other scope; assign
\* never changes the key set of a map.
C24_DeclareInsertsIntoOneMap ==
  /\ envOp.op = "declare" =>
       /\ Len(env) = Len(envOp.before)
       /\ \A d \in 1..(Len(env) - 1) : env[d] = envOp.before[d]
       /\ IF envOp.constant
            THEN /\ env[Len(env)].variables = envOp.before[Len(env)].variables
                 /\ DOMAIN env[Len(env)].constants =
                      (DOMAIN envOp.before[Len(env)].constants) \cup {envOp.name}
            ELSE /\ env[Len(env)].constants = envOp.before[Len(env)].constants
                 /\ DOMAIN env[Len(env)].variables =
                      (DOMAIN envOp.before[Len(env)].variables) \cup {envOp.name}
  /\ AssignStep =>
       /\ Len(env) = Len(envOp.before)
       /\ \A d \in 1..Len(env) :
            /\ DOMAIN env[d].variables = DOMAIN envOp.before[d].variables
            /\ env[d].constants = envOp.before[d].constants

(***************************************************************************)
(* C25.  Function calls fail fast.                                         *)
(***************************************************************************)
\* the last step evaluated the call f() of a failing-body program
BodyCalled ==
  /\ evalIn.op = "program"
  /\ evalIn.family = "failing"
  /\ evalOp.op = "expression"

\* the body of the function called
CalledBody == Lookup(evalOp.before, "f").v.body

\* what the first content of the body evaluates to in function_env
FirstContent ==
  IF CalledBody[1].c = "Expression"
    THEN EvalExpr(CalledBody[1].expr,
                  [StartState(NewWithParent(evalOp.before)) EXCEPT !.fuel = @ - 1])
    ELSE EvalStmt(CalledBody[1].stmt,
                  [StartState(NewWithParent(evalOp.before)) EXCEPT !.fuel = @ - 1])

\* C25: if a statement or expression in the body of a user-defined function
\* raises an error during a call, no later statement of the body is
\* executed and the call expression evaluates to that error, which then
\* propagates to the enclosing statement (here the top-level item, whose
\* error the execution loop pushes).
C25_CallsFailFast ==
  (BodyCalled /\ FirstContent.tag = "Err")
    => /\ evalOp.result.tag = "Err"
       /\ evalOp.result.e = FirstContent.e
       /\ out = evalOp.outBefore
       /\ ERROR_LIST = Append(evalOp.listBefore, FirstContent.e)

\* A statement of the body raised an error, the statement after it was
\* executed all the same and the call evaluated to a value.
C25_StatementErrorDropped ==
  /\ BodyCalled
  /\ CalledBody[1].c = "Statement"
  /\ FirstContent.tag = "Err"
  /\ evalOp.result.tag = "Ok"
  /\ out = Append(evalOp.outBefore, BodyMarker \o "\n")
  /\ ERROR_LIST = evalOp.listBefore

\* The part that holds: an expression of the body that raises an error
\* ends the call with that error.
C25_ExpressionsFailFast ==
  (BodyCalled /\ CalledBody[1].c = "Expression" /\ FirstContent.tag = "Err")
    => /\ evalOp.result.tag = "Err"
       /\ evalOp.result.e = FirstContent.e
       /\ out = evalOp.outBefore
       /\ ERROR_LIST = Append(evalOp.listBefore, FirstContent.e)

C25_ExpressionErrorLeft ==
  /\ BodyCalled
  /\ CalledBody[1].c = "Expression"
  /\ FirstContent.tag = "Err"
  /\ evalOp.result.tag = "Err"

(***************************************************************************)
(* C26.  A loop variable tagged Any accepts every element.                 *)
(***************************************************************************)
\* the for statements among the top-level items of the source run
SourceLoops ==
  {evalIn.source[k].stmt : k \in {j \in 1..Len(evalIn.source) :
                                    /\ evalIn.source[j].c = "Statement"
                                    /\ evalIn.source[j].stmt.t = "ForStmt"}}

\* error is a type mismatch reported at the loop variable of `loop`
LoopVariableMismatch(error, loop) ==
  /\ error.kind = "Type"
  /\ error.line = loop.init.v.location.line
  /\ error.column = loop.init.v.location.column
  /\ error.extra = Some("  expected: Any\n  found:    array\n")
       \/ error.extra = Some("  expected: Any\n  found:    object\n")
       \/ error.extra = Some("  expected: Any\n  found:    int\n")

\* a program with a for loop over an Array or Object is run
LoopRun ==
  /\ evalIn.op = "run"
  /\ evalIn.family = "loops"

\* C26: a for loop whose loop variable carries the type tag Any accepts
\* elements of every runtime type: the run of a program that iterates over
\* an Array or Object with such a loop pushes no type-mismatch error for
\* the loop variable in any pass (pre-pass, lint or execution).
C26_AnyLoopVariableAcceptsAll ==
  LoopRun =>
    \A loop \in SourceLoops : \A k \in 1..Len(ERROR_LIST) :
      loop.init.v.type = "Any" => ~LoopVariableMismatch(ERROR_LIST[k], loop)

\* The run of `for |v| in [1, 2] { @println => |v| }` has returned Ok and
\* printed both elements, and the accumulator holds the type mismatch the
\* pre-pass reported for v.
C26_MismatchPushedByPrePass ==
  /\ LoopRun
  /\ frame.phase = "returned"
  /\ evalOp.result.tag = "Ok"
  /\ out = <<"1\n", "2\n">>
  /\ \E loop \in SourceLoops :
       /\ SplitIdents(loop.init.v.ident) = <<"v">>
       /\ ERROR_LIST =
            <<TypeError("Type mismatch in variable declaration 'v': expected Any, found array",
                        "Any", "array", loop.init.v.location.line,
                        loop.init.v.location.column)>>

\* The part that holds: the execution pass reports no mismatch for a loop
\* variable, and a loop with two variables has none reported in any pass.
C26_ExecutionAcceptsAll ==
  LoopRun =>
    /\ \A loop \in SourceLoops : \A k \in 1..Len(ERROR_LIST) :
         LoopVariableMismatch(ERROR_LIST[k], loop)
           => /\ Len(SplitIdents(loop.init.v.ident)) = 1
              /\ frame.phase # "source" /\ frame.phase # "imports"
    /\ evalOp.op = "item" => ERROR_LIST = evalOp.before.list

C26_TwoVariableLoopRan ==
  /\ LoopRun
  /\ frame.phase = "returned"
  /\ \E loop \in SourceLoops : Len(SplitIdents(loop.init.v.ident)) = 2
  /\ ERROR_LIST = << >>
  /\ out # << >>

(***************************************************************************)
(* C27.  Deadlock freedom of the accumulator.                              *)
(***************************************************************************)
\* t holds the Mutex `held` and is blocked in lock() on the Mutex `wanted`
HoldsAndWaits(t, held, wanted) ==
  /\ mutex[held] = t
  /\ mutex[wanted] \notin {0, t}
  /\ thread[t].pc \in {"push_error: " \o wanted \o ".lock()",
                       "print_and_clear_errors: " \o wanted \o ".lock()"}

LockOrderDeadlock ==
  \E t, u \in Threads :
    /\ t # u
    /\ HoldsAndWaits(t, "ERROR_SET", "ERROR_LIST")
    /\ HoldsAndWaits(u, "ERROR_LIST", "ERROR_SET")

\* C27: under every interleaving of two threads that call push_error and
\* print_and_clear_errors, both calls complete; no reachable state has one
\* thread holding the ERROR_SET mutex and waiting for ERROR_LIST while the
\* other holds ERROR_LIST and waits for ERROR_SET.
C27_AccumulatorDeadlockFree ==
  /\ [](~LockOrderDeadlock)
  /\ \A t \in Threads : [](thread[t] # Returned => <>(thread[t] = Returned))

\* push_error holds ERROR_SET with a new key and waits for ERROR_LIST, while
\* print_and_clear_errors has emptied the list it holds and waits for
\* ERROR_SET: neither thread has a step.
C27_BothThreadsBlocked ==
  /\ LockOrderDeadlock
  /\ \A t \in Threads : ~ENABLED ThreadStep(t)
  /\ ERROR_LIST = << >>
  /\ ERROR_SET # {}

\* What holds: a Mutex is held only by a thread inside a call, a thread holds
\* at most the one it locked first, and a single caller always returns.
C27_GuardsBelongToCalls ==
  \A t \in Threads :
    /\ mutex.ERROR_SET = t <=> thread[t].pc = "push_error: ERROR_LIST.lock()"
    /\ mutex.ERROR_LIST = t <=> thread[t].pc = "print_and_clear_errors: ERROR_SET.lock()"
    /\ (\A u \in Threads \ {t} : thread[u] = Returned) => ENABLED ThreadStep(t) \/ thread[t] = Returned

(***************************************************************************)
(* C28.  The set and the list of the accumulator agree.                    *)
(***************************************************************************)
\* C28: in every state reachable by push_error, print_and_clear_errors and
\* clear_errors calls, the set of keys stored in ERROR_SET equals the set of
\* (kind, line, column, message) keys of the entries of ERROR_LIST; hence
\* an error pushed after a drain or clear is stored again, never silently
\* suppressed.
C28_AccumulatorConsistent ==
  /\ [](ERROR_SET = SeqKeys(ERROR_LIST))
  /\ [][ \A e \in AccErrors :
           (PushError(e) /\ accOp.op \in {"print_and_clear_errors", "clear_errors"})
             => ERROR_LIST' = Append(ERROR_LIST, e) ]_vars

\* An error pushed after clear_errors was dropped: the list is empty and its
\* key is still in the set.
C28_SuppressedAfterClear ==
  /\ accOp.op = "push_error"
  /\ ERROR_LIST = << >>
  /\ ErrorKey(accOp.error) \in ERROR_SET

\* What holds with clear_errors: the key of every listed error is in the
\* set, and the list holds no key twice.
C28_ListedKeysInSet ==
  /\ SeqKeys(ERROR_LIST) \subseteq ERROR_SET
  /\ \A i, j \in 1..Len(ERROR_LIST) :
       ErrorKey(ERROR_LIST[i]) = ErrorKey(ERROR_LIST[j]) => i = j

C28_ClearedWithKeysLeft ==
  /\ accOp.op = "clear_errors"
  /\ accOp.cleared # << >>
  /\ ERROR_SET # {}

(***************************************************************************)
(* C29.  The placeholders of the declaration pre-pass.                     *)
(***************************************************************************)
\* the values create_dummy_value makes
DummyValues ==
  {CreateDummyValue(type) :
     type \in {"String", "Int", "Float", "Bool", "Array", "Object", "Fn", "Any"}}

\* the execution pass of a run has begun: *env = temp_env is done
ExecutionBegun ==
  /\ evalIn.op = "run"
  /\ frame.phase \in {"reimports", "returned", "ended"}
  /\ evalOp.op \in {"lint", "reimport", "item"}
       \/ (evalOp.op = "return" /\ evalOp.result.tag = "Ok")
       \/ (evalOp.op = "return" /\ evalOp.result.e.message = "Multiple runtime errors occurred")

\* a read of n yields a dummy value that no executed declaration, assignment
\* or import has stored and that the caller's Environment did not hold
ReadsPlaceholder(n) ==
  /\ Lookup(env, n).some
  /\ Lookup(env, n).v \in DummyValues
  /\ n \notin frame.stored
  /\ Lookup(env, n) # Lookup(evalIn.env, n)

\* C29: during and after the execution pass, a read of a name yields either
\* a value stored by an executed declaration, assignment or import, or a
\* not-found error; it never yields the dummy value installed by the
\* declaration pre-pass.  In particular after a top-level `let` whose
\* initialiser fails at runtime the name is not bound to a dummy, and
\* function parameter names are not bound in the global scope.
C29_PlaceholdersNeverObservable ==
  ExecutionBegun => \A n \in Idents : ~ReadsPlaceholder(n)

\* let x: int = 1 / 0;  @println => |x|  has run to its end: the declaration
\* failed, and the read of x printed the dummy 0.
C29_FailedLetReadsDummy ==
  /\ ExecutionBegun
  /\ evalIn.family = "dummies"
  /\ evalSteps = 2
  /\ frame.prog.content[1].stmt.t = "VarDecl"
  /\ Len(ERROR_LIST) = 1
  /\ ERROR_LIST[1].line = frame.prog.content[1].stmt.location.line
  /\ ReadsPlaceholder("x")
  /\ out = <<"0\n">>

\* func f |a: string| { ... }  @println => |a|: the parameter is bound in
\* the global scope, and the read printed the dummy "".
C29_ParameterBoundGlobally ==
  /\ ExecutionBegun
  /\ evalIn.family = "dummies"
  /\ evalSteps = 2
  /\ frame.prog.content[1].stmt.t = "FuncDecl"
  /\ ReadsPlaceholder("a")
  /\ MapHas(env[1].variables, "a")
  /\ ERROR_LIST = << >>
  /\ out = <<"\n">>

\* What holds: a placeholder that is read is the binding temp_env had when
\* it became the Environment, and a name an executed top-level declaration
\* has stored is none.
C29_PlaceholdersComeFromTempEnv ==
  ExecutionBegun =>
    \A n \in Idents :
      /\ ReadsPlaceholder(n) => Lookup(env, n) = Lookup(frame.temp_env, n)
      /\ (evalOp.op = "item" /\ evalOp.result.tag = "Ok"
            /\ evalOp.item.c = "Statement" /\ evalOp.item.stmt.t = "VarDecl"
            /\ evalOp.item.stmt.ident = n) => ~ReadsPlaceholder(n)

(***************************************************************************)
(* C30.  Assignments made in a loop body.                                  *)
(***************************************************************************)
\* the last step executed, without error, a for statement whose body is
\* x = x + 1, with x declared before the loop
LoopAssigned ==
  /\ LoopRun
  /\ evalOp.op = "item"
  /\ evalOp.item.c = "Statement"
  /\ evalOp.item.stmt.t = "ForStmt"
  /\ evalOp.item.stmt.body = <<IncrementX(evalOp.item.stmt.location.line)>>
  /\ evalOp.result.tag = "Ok"
  /\ Lookup(evalOp.before.env, "x").some

\* C30: an assignment executed inside a for-loop body to a variable declared
\* before the loop is visible after the loop with the value of the last
\* executed assignment, for array iteration and for object iteration alike.
C30_LoopAssignmentsVisible ==
  LoopAssigned =>
    Lookup(env, "x") = Some(IntV(Lookup(evalOp.before.env, "x").v.i + 2))

\* After `for |k, v| in {a: 1, b: 2} { x = x + 1 }` x has the value it had
\* before the loop.
C30_ObjectLoopAssignmentLost ==
  /\ LoopAssigned
  /\ Len(SplitIdents(evalOp.item.stmt.init.v.ident)) = 2
  /\ Lookup(env, "x") = Lookup(evalOp.before.env, "x")
  /\ env = evalOp.before.env

\* What holds: the assignments of an array loop are visible after it, the
\* ones of an object loop are made on a clone and leave the Environment of
\* the statement as it was.
C30_VisibleForArraysOnly ==
  LoopAssigned =>
    IF Len(SplitIdents(evalOp.item.stmt.init.v.ident)) = 1
      THEN Lookup(env, "x") = Some(IntV(Lookup(evalOp.before.env, "x").v.i + 2))
      ELSE env = evalOp.before.env

C30_ArrayLoopAssignmentVisible ==
  /\ LoopAssigned
  /\ Len(SplitIdents(evalOp.item.stmt.init.v.ident)) = 1
  /\ Lookup(env, "x") = Some(IntV(2))

====
